---- MODULE Spec2Model ----
(***************************************************************************)
(* A model of the re-ranking rules of konflux-ci/prioritize:               *)
(*   rules/team/rank.py               check_rank, _set_rank, Blocks        *)
(*   rules/team/timesensitive_rank.py check_timesensitive_rank, Blocks     *)
(*                                                                         *)
(* An issue of the queried list is a key 1..n (its position in the first   *)
(* query result); the parent with id p has the key -p.  A ranking is a     *)
(* sequence of keys.  jira.resources.Issue compares by key, so equality of *)
(* keys stands for the == of the code.                                     *)
(***************************************************************************)
EXTENDS Integers, Sequences, FiniteSets, TLC

(* ------------------------------ bounds -------------------------------- *)

MaxIssues == 3
MaxRuns == 2
MaxRanked == 17
MaxByComponent == 5
MaxChildren == 3
MaxChecks == 2
MaxTree == 4

(* ------------------------ constants of the code ----------------------- *)

\* duedate=None
NoDate == -1
\* previous_issue = None / parent_issue = None
None == 0
\* float("-inf"), below every rank of the tracker (ranks are >= 0 here)
NegInf == -1
\* datetime.timedelta(days=30 * 3)
HorizonDays == 90
\* datetime.datetime.today(), as a day number; a date is the number of its day
Today == 0
\* fixversion_rank: datetime.timedelta(days=30 * 3)
FvHorizonDays == 90
\* fixversion_rank: "9999-99-99", after every date
FarFuture == 9999
\* The issues of one run come from one query, project={project_id}
TeamProject == "TEAM"
OtherProject == "OTHER"
InProgress == "In Progress"
ToDo == "To Do"

Projects == {TeamProject, OtherProject}
Statuses == {InProgress, ToDo}

VARIABLES
    parents,      \* parent id -> [project, rank, status]: the parents' fields
    issue,        \* issue key -> [parent, duedate, project]: the issues' fields
    tracker,      \* the tracker's rank order (keys, highest rank first)
    favor_status, \* check_rank's keyword argument
    dry_run,      \* the --dry-run option
    which,        \* the rule under run: "rank", "timesensitive" or a _set_rank
    runs,         \* how many runs of the rule have completed
    issues,       \* the list given to the last run
    blocks,       \* Blocks.blocks at the end of the last run
    old_ranking,  \* old_ranking of the last run
    new_ranking,  \* new_ranking of the last run
    calls,        \* the jira_client.rank(issue, prev_issue) calls of the last run
    would,        \* the moves a dry run reported ("would be moved just below")
    raised,       \* whether the last run ended in an exception
    input,        \* what a rule other than the ranking rules is given
    context,      \* the context dict of the rule: its updates and comments
    writes,       \* the writes made on the tracker, in the order they are made
    output        \* what the last run of such a rule returned or assigned

vars == <<parents, issue, tracker, favor_status, dry_run, which, runs, issues,
          blocks, old_ranking, new_ranking, calls, would, raised,
          input, context, writes, output>>

\* The state of the ranking rules and the state of the other rules
ranking_vars == <<parents, issue, tracker, favor_status, issues, blocks,
                  old_ranking, new_ranking, calls, would>>
rule_vars == <<input, context, writes, output>>

\* context = {"comments": [], "updates": []}
EmptyContext == [updates |-> <<>>, comments |-> <<>>]

\* No rule other than a ranking rule is under run
NoRule ==
    /\ input = <<>>
    /\ context = EmptyContext
    /\ writes = <<>>
    /\ output = <<>>

(* ------------------------------ helpers ------------------------------- *)

Range(s) == {s[i] : i \in 1..Len(s)}

\* list.insert(index, x), index counted from 0
ListInsert(s, index, x) ==
    SubSeq(s, 1, index) \o <<x>> \o SubSeq(s, index + 1, Len(s))

\* The index (from 1) of the first element of s equal to x; 0 when absent
RECURSIVE IndexOfFrom(_, _, _)
IndexOfFrom(s, x, j) ==
    IF j > Len(s) THEN 0
    ELSE IF s[j] = x THEN j
    ELSE IndexOfFrom(s, x, j + 1)

IndexOf(s, x) == IndexOfFrom(s, x, 1)

RECURSIVE Flatten(_)
Flatten(ss) == IF ss = <<>> THEN <<>> ELSE Head(ss) \o Flatten(Tail(ss))

IsPermutation(s, t) ==
    /\ Len(s) = Len(t)
    /\ \A x \in Range(s) \cup Range(t) :
          Cardinality({i \in 1..Len(s) : s[i] = x})
              = Cardinality({i \in 1..Len(t) : t[i] = x})

(* ===================== rules/team/rank.py ============================= *)
(* A block is [parent_issue, issues]: the parent's id (None for a          *)
(* parentless block) and the keys of its issues in arrival order.          *)

\* A slip in add_issue: only the last block is looked at, so the issues of a
\* parent that are not adjacent in the list get several blocks
rank_add_issue_last_block_only(bs, i, isu) ==
    LET parent_issue == isu[i].parent
    IN  IF /\ parent_issue # None
           /\ bs # <<>>
           /\ bs[Len(bs)].parent_issue = parent_issue
        THEN [bs EXCEPT ![Len(bs)].issues = Append(@, i)]
        ELSE Append(bs, [parent_issue |-> parent_issue, issues |-> <<i>>])

\* Blocks.add_issue
rank_add_issue(bs, i, isu) ==
    LET parent_issue == isu[i].parent
        found == {j \in 1..Len(bs) : bs[j].parent_issue = parent_issue}
    IN  IF parent_issue = None
        THEN Append(bs, [parent_issue |-> None, issues |-> <<i>>])
        ELSE IF found # {}
             THEN LET j == CHOOSE j \in found : \A m \in found : j <= m
                  IN  [bs EXCEPT ![j].issues = Append(@, i)]
             ELSE Append(bs, [parent_issue |-> parent_issue, issues |-> <<i>>])

\* Blocks.__init__: add_issue for each issue of the list, in order
RECURSIVE rank_Blocks_from(_, _, _)
rank_Blocks_from(bs, iss, isu) ==
    IF iss = <<>> THEN bs
    ELSE rank_Blocks_from(rank_add_issue(bs, Head(iss), isu), Tail(iss), isu)

rank_Blocks(iss, isu) == rank_Blocks_from(<<>>, iss, isu)

\* A slip in get_issues: the parent is listed whatever its project
rank_block_issues_always(b, isu, par) ==
    IF b.parent_issue # None THEN <<-b.parent_issue>> \o b.issues ELSE b.issues

\* The part of Blocks.get_issues that one block contributes
rank_block_issues(b, isu, par) ==
    IF /\ b.parent_issue # None
       /\ par[b.parent_issue].project = isu[b.issues[1]].project
    THEN <<-b.parent_issue>> \o b.issues
    ELSE b.issues

\* Blocks.get_issues
rank_get_issues(bs, isu, par) ==
    Flatten([j \in 1..Len(bs) |-> rank_block_issues(bs[j], isu, par)])

\* A slip in _sort_by_project_rank: the rankings are not kept per project
rank_block_project_ignored(b, par) ==
    IF b.parent_issue = None THEN "None" ELSE TeamProject

\* The project a block's slot belongs to (None for a parentless block)
rank_block_project(b, par) ==
    IF b.parent_issue = None THEN "None" ELSE par[b.parent_issue].project

\* A slip in the insertion loop: <= for <
rank_before_or_equal(block_rank, i_block_rank) == block_rank <= i_block_rank

\* The test of the insertion loop: block_rank < rank of i_block's parent
rank_before(block_rank, i_block_rank) == block_rank < i_block_rank

\* A slip in the first loop: the block is appended without looking at ranks
rank_insert_block_append(project_ranking, j, bs, par) ==
    Append(project_ranking, j)

\* _sort_by_project_rank, the body of the first loop for one block with a
\* parent: insert the block before the first block of its project whose
\* parent has a greater rank, append it when there is none.  A ranking holds
\* the blocks by their index in self.blocks.
rank_insert_block(project_ranking, j, bs, par) ==
    LET block_rank == par[bs[j].parent_issue].rank
        later == {x \in 1..Len(project_ranking) :
                     rank_before(block_rank,
                                 par[bs[project_ranking[x]].parent_issue].rank)}
    IN  IF later # {}
        THEN LET x == CHOOSE x \in later : \A y \in later : x <= y
             IN  ListInsert(project_ranking, x - 1, j)
        ELSE Append(project_ranking, j)

\* _sort_by_project_rank, first loop: per_project_ranking after the blocks
\* j..Len(bs) have been added to ppr
RECURSIVE rank_per_project_ranking(_, _, _, _)
rank_per_project_ranking(ppr, j, bs, par) ==
    IF j > Len(bs) THEN ppr
    ELSE LET project_key == rank_block_project(bs[j], par)
         IN  IF bs[j].parent_issue = None
             THEN rank_per_project_ranking(
                      [ppr EXCEPT !["None"] = Append(@, j)], j + 1, bs, par)
             ELSE rank_per_project_ranking(
                      [ppr EXCEPT ![project_key] =
                          rank_insert_block(@, j, bs, par)], j + 1, bs, par)

\* _sort_by_project_rank, second loop: each slot takes the next block of the
\* ranking of its project (pop(0))
RECURSIVE rank_thread(_, _, _, _)
rank_thread(ppr, j, bs, par) ==
    IF j > Len(bs) THEN <<>>
    ELSE LET project == rank_block_project(bs[j], par)
         IN  <<bs[Head(ppr[project])]>>
                 \o rank_thread([ppr EXCEPT ![project] = Tail(@)], j + 1, bs, par)

\* Blocks._sort_by_project_rank
rank_sort_by_project_rank(bs, par) ==
    IF bs = <<>> THEN bs
    ELSE rank_thread(
             rank_per_project_ranking(
                 [p \in Projects \cup {"None"} |-> <<>>], 1, bs, par),
             1, bs, par)

\* A slip in parent_is_inprogress: a block without a parent counts as in
\* progress
rank_parent_is_inprogress_or_orphan(b, par) ==
    IF b.parent_issue = None THEN TRUE
    ELSE par[b.parent_issue].status = InProgress

\* Block.parent_is_inprogress
rank_parent_is_inprogress(b, par) ==
    IF b.parent_issue = None THEN FALSE
    ELSE par[b.parent_issue].status = InProgress

\* Blocks._sort_by_status
rank_sort_by_status(bs, par) ==
    SelectSeq(bs, LAMBDA b : rank_parent_is_inprogress(b, par))
        \o SelectSeq(bs, LAMBDA b : ~rank_parent_is_inprogress(b, par))

\* Blocks.sort
rank_sort(bs, par, favor) ==
    IF favor THEN rank_sort_by_status(rank_sort_by_project_rank(bs, par), par)
    ELSE rank_sort_by_project_rank(bs, par)

(* ------------------------------ _set_rank ----------------------------- *)

\* A slip in the loop: rerank is computed anew for each index and does not
\* stay set
rank_rerank_not_kept(rerank, an_issue, old_issue) == an_issue # old_issue

\* "if issue != old_ranking[index]: rerank = True": the flag after the test
rank_rerank(rerank, an_issue, old_issue) == rerank \/ an_issue # old_issue

\* A slip in the loop: previous_issue is assigned inside the branch that
\* moves, so it stays None and nothing is ever moved
RECURSIVE rank_set_rank_loop_stale(_, _, _, _, _, _, _)
rank_set_rank_loop_stale(old, new, dry, index, rerank, previous_issue, acc) ==
    IF index > Len(new) THEN acc
    ELSE IF index > Len(old) THEN [acc EXCEPT !.raised = TRUE]
    ELSE LET an_issue == new[index]
             rr == rerank \/ an_issue # old[index]
             move == <<an_issue, previous_issue>>
             moves == rr /\ previous_issue # None
             acc2 == IF moves
                     THEN IF dry THEN [acc EXCEPT !.would = Append(@, move)]
                          ELSE [acc EXCEPT !.calls = Append(@, move)]
                     ELSE acc
             prev == IF moves THEN an_issue ELSE previous_issue
         IN  rank_set_rank_loop_stale(old, new, dry, index + 1, rr, prev, acc2)

\* _set_rank's loop from `index` (counted from 1) on.  The result is
\* [calls, would, raised]: the rank calls made, the moves a dry run reports,
\* and whether old_ranking[index] raised IndexError (the loop stops there).
RECURSIVE rank_set_rank_loop(_, _, _, _, _, _, _)
rank_set_rank_loop(old, new, dry, index, rerank, previous_issue, acc) ==
    IF index > Len(new) THEN acc
    ELSE IF index > Len(old) THEN [acc EXCEPT !.raised = TRUE]
    ELSE LET an_issue == new[index]
             rr == rank_rerank(rerank, an_issue, old[index])
             move == <<an_issue, previous_issue>>
             acc2 == IF rr /\ previous_issue # None
                     THEN IF dry THEN [acc EXCEPT !.would = Append(@, move)]
                          ELSE [acc EXCEPT !.calls = Append(@, move)]
                     ELSE acc
         IN  rank_set_rank_loop(old, new, dry, index + 1, rr, an_issue, acc2)

\* A slip in the dry-run branch: only the first move is reported
rank_set_rank_dry_first_only(old, new, dry) ==
    LET res == rank_set_rank_loop(old, new, dry, 1, FALSE, None,
                       [calls |-> <<>>, would |-> <<>>, raised |-> FALSE])
    IN  IF dry /\ res.would # <<>>
        THEN [res EXCEPT !.would = <<Head(res.would)>>]
        ELSE res

\* rules.team.rank._set_rank
rank_set_rank(old, new, dry) ==
    rank_set_rank_loop(old, new, dry, 1, FALSE, None,
                       [calls |-> <<>>, would |-> <<>>, raised |-> FALSE])

(* ------------------------------ the tracker --------------------------- *)

\* jira_client.rank(issue, prev_issue): the issue is taken out of the rank
\* order and put back directly after prev_issue
tracker_rank(tr, an_issue, prev_issue) ==
    LET without == SelectSeq(tr, LAMBDA k : k # an_issue)
        at == IndexOf(without, prev_issue)
    IN  ListInsert(without, at, an_issue)

\* The rank calls of a run, applied to the tracker in the order they are made
RECURSIVE tracker_apply(_, _)
tracker_apply(tr, cs) ==
    IF cs = <<>> THEN tr
    ELSE tracker_apply(tracker_rank(tr, Head(cs)[1], Head(cs)[2]), Tail(cs))

\* query_issues: the issues of the team's project in rank order (ORDER BY
\* rank ASC); the parents are of another type and are not in the result
query_issues(tr) == SelectSeq(tr, LAMBDA k : k > 0)

(* ================ rules/team/timesensitive_rank.py ==================== *)
(* A block is [ts, parent_issue, issues]; ts tells the TimeSensitiveBlock  *)
(* (type(block) is TimeSensitiveBlock) from a Block.                       *)

\* (today + timedelta(days=30 * 3)).strftime("%Y-%m-%d"); the due dates have
\* the same format, in which strings compare as the days they name
critical_deadline == Today + HorizonDays

\* TimeSensitiveBlock._claims: duedate and duedate < critical_deadline
ts_timesensitive_claims(i, isu) ==
    isu[i].duedate # NoDate /\ isu[i].duedate < critical_deadline

\* Block.claims and TimeSensitiveBlock.claims
ts_claims(b, i, isu) ==
    IF b.ts THEN ts_timesensitive_claims(i, isu)
    ELSE b.parent_issue = isu[i].parent

\* Blocks.add_issue
ts_add_issue(bs, i, isu) ==
    LET claiming == {j \in 1..Len(bs) : ts_claims(bs[j], i, isu)}
    IN  IF claiming # {}
        THEN LET j == CHOOSE j \in claiming : \A m \in claiming : j <= m
             IN  [bs EXCEPT ![j].issues = Append(@, i)]
        ELSE Append(bs, [ts |-> FALSE, parent_issue |-> isu[i].parent,
                         issues |-> <<i>>])

\* Blocks.__init__: self.blocks = [TimeSensitiveBlock(None)], then add_issue
\* for each issue of the list, in order
RECURSIVE ts_Blocks_from(_, _, _)
ts_Blocks_from(bs, iss, isu) ==
    IF iss = <<>> THEN bs
    ELSE ts_Blocks_from(ts_add_issue(bs, Head(iss), isu), Tail(iss), isu)

ts_Blocks(iss, isu) ==
    ts_Blocks_from(<<[ts |-> TRUE, parent_issue |-> None, issues |-> <<>>]>>,
                   iss, isu)

\* A slip in TimeSensitiveBlock.yield_issues: the issues are left unsorted
ts_sorted_by_duedate_unsorted(s, isu) == s

\* sorted(self.issues, key=duedate): a stable sort; each issue goes after
\* the issues already placed whose key is not greater
RECURSIVE ts_sorted_by_duedate(_, _)
ts_sorted_by_duedate(s, isu) ==
    IF s = <<>> THEN <<>>
    ELSE LET init == ts_sorted_by_duedate(SubSeq(s, 1, Len(s) - 1), isu)
             x == s[Len(s)]
             at == Cardinality({j \in 1..Len(init) :
                                   isu[init[j]].duedate <= isu[x].duedate})
         IN  ListInsert(init, at, x)

\* Block.yield_issues and TimeSensitiveBlock.yield_issues
ts_yield_issues(b, isu) ==
    IF b.ts
    THEN IF b.issues = <<>> THEN <<>> ELSE ts_sorted_by_duedate(b.issues, isu)
    ELSE b.issues

\* Blocks.get_issues
ts_get_issues(bs, isu) ==
    Flatten([j \in 1..Len(bs) |-> ts_yield_issues(bs[j], isu)])

\* Block.rank and TimeSensitiveBlock.rank return None: only a Block without
\* a parent does (the Rank field of an issue of the tracker is always set)
ts_rank_is_None(b) == ~b.ts /\ b.parent_issue = None

\* Block.rank and TimeSensitiveBlock.rank, of a block whose rank is not None
ts_block_rank(b, par) ==
    IF b.ts THEN NegInf ELSE par[b.parent_issue].rank

\* A slip in _sort_by_project_rank: one ranking for the blocks of all parents
ts_block_project_ignored(b, par) ==
    IF b.parent_issue = None THEN "None" ELSE TeamProject

\* The project of a block's parent (None for a block without a parent)
ts_block_project(b, par) ==
    IF b.parent_issue = None THEN "None" ELSE par[b.parent_issue].project

\* The test of the insertion loop: block.rank < i_block.rank
ts_before(block_rank, i_block_rank) == block_rank < i_block_rank

\* _sort_by_project_rank, the insertion of one block that has a rank
ts_insert_block(project_ranking, j, bs, par) ==
    LET later == {x \in 1..Len(project_ranking) :
                     ts_before(ts_block_rank(bs[j], par),
                               ts_block_rank(bs[project_ranking[x]], par))}
    IN  IF later # {}
        THEN LET x == CHOOSE x \in later : \A y \in later : x <= y
             IN  ListInsert(project_ranking, x - 1, j)
        ELSE Append(project_ranking, j)

\* _sort_by_project_rank, first loop
RECURSIVE ts_per_project_ranking(_, _, _, _)
ts_per_project_ranking(ppr, j, bs, par) ==
    IF j > Len(bs) THEN ppr
    ELSE LET project_key == ts_block_project(bs[j], par)
         IN  IF ts_rank_is_None(bs[j])
             THEN ts_per_project_ranking(
                      [ppr EXCEPT !["None"] = Append(@, j)], j + 1, bs, par)
             ELSE ts_per_project_ranking(
                      [ppr EXCEPT ![project_key] =
                          ts_insert_block(@, j, bs, par)], j + 1, bs, par)

\* _sort_by_project_rank, second loop
RECURSIVE ts_thread(_, _, _, _)
ts_thread(ppr, j, bs, par) ==
    IF j > Len(bs) THEN <<>>
    ELSE LET project == ts_block_project(bs[j], par)
         IN  <<bs[Head(ppr[project])]>>
                 \o ts_thread([ppr EXCEPT ![project] = Tail(@)], j + 1, bs, par)

\* Blocks._sort_by_project_rank
ts_sort_by_project_rank(bs, par) ==
    ts_thread(
        ts_per_project_ranking(
            [p \in Projects \cup {"None"} |-> <<>>], 1, bs, par),
        1, bs, par)

\* Block.parent_is_inprogress and TimeSensitiveBlock.parent_is_inprogress
ts_parent_is_inprogress(b, par) ==
    IF b.ts THEN FALSE
    ELSE IF b.parent_issue = None THEN FALSE
    ELSE par[b.parent_issue].status = InProgress

\* Blocks._sort_by_status
ts_sort_by_status(bs, par) ==
    SelectSeq(bs, LAMBDA b : ts_parent_is_inprogress(b, par))
        \o SelectSeq(bs, LAMBDA b : ~ts_parent_is_inprogress(b, par))

\* A slip in _deprioritize_orphans: self.blocks = other, the orphans forgotten
ts_deprioritize_orphans_dropped(bs) ==
    SelectSeq(bs, LAMBDA b : b.parent_issue # None)

\* Blocks._deprioritize_orphans
ts_deprioritize_orphans(bs) ==
    SelectSeq(bs, LAMBDA b : b.parent_issue # None)
        \o SelectSeq(bs, LAMBDA b : b.parent_issue = None)

\* A slip in sort: _prioritize_timesensitive_block left out
ts_prioritize_timesensitive_block_skipped(bs) == bs

\* Blocks._prioritize_timesensitive_block
ts_prioritize_timesensitive_block(bs) ==
    SelectSeq(bs, LAMBDA b : b.ts) \o SelectSeq(bs, LAMBDA b : ~b.ts)

\* Blocks.sort
ts_sort(bs, par) ==
    ts_prioritize_timesensitive_block(
        ts_deprioritize_orphans(
            ts_sort_by_status(ts_sort_by_project_rank(bs, par), par)))

\* "if issue != old_ranking[index]: rerank = True": the flag after the test
ts_rerank(rerank, an_issue, old_issue) == rerank \/ an_issue # old_issue

\* rules.team.timesensitive_rank._set_rank: its loop from `index` on
RECURSIVE ts_set_rank_loop(_, _, _, _, _, _, _)
ts_set_rank_loop(old, new, dry, index, rerank, previous_issue, acc) ==
    IF index > Len(new) THEN acc
    ELSE IF index > Len(old) THEN [acc EXCEPT !.raised = TRUE]
    ELSE LET an_issue == new[index]
             rr == ts_rerank(rerank, an_issue, old[index])
             move == <<an_issue, previous_issue>>
             acc2 == IF rr /\ previous_issue # None
                     THEN IF dry THEN [acc EXCEPT !.would = Append(@, move)]
                          ELSE [acc EXCEPT !.calls = Append(@, move)]
                     ELSE acc
         IN  ts_set_rank_loop(old, new, dry, index + 1, rr, an_issue, acc2)

\* A slip in the loop: the issue at the first differing index is taken to
\* be in place, so the first move is not made
ts_set_rank_first_dropped(old, new, dry) ==
    LET res == ts_set_rank_loop(old, new, dry, 1, FALSE, None,
                     [calls |-> <<>>, would |-> <<>>, raised |-> FALSE])
    IN  [res EXCEPT !.calls = IF @ = <<>> THEN @ ELSE Tail(@),
                    !.would = IF @ = <<>> THEN @ ELSE Tail(@)]

\* rules.team.timesensitive_rank._set_rank
ts_set_rank(old, new, dry) ==
    ts_set_rank_loop(old, new, dry, 1, FALSE, None,
                     [calls |-> <<>>, would |-> <<>>, raised |-> FALSE])

\* A call Blocks(issues, **keywords): __init__(self, issues) has no other
\* parameter, so any keyword makes the call raise TypeError before a block is
\* built
ts_Blocks_call(iss, isu, keywords) ==
    IF keywords # {}
    THEN [raised |-> TRUE, blocks |-> <<>>]
    ELSE [raised |-> FALSE, blocks |-> ts_Blocks(iss, isu)]

(* ================== rules/team/fixversion_rank.py ===================== *)

\* rules.team.fixversion_rank._set_rank: `if issue != old_ranking[index]:
\* rerank = True`
fv_rerank(rerank, an_issue, old_issue) == rerank \/ an_issue # old_issue

\* rules.team.fixversion_rank._set_rank: its loop from `index` on
RECURSIVE fv_set_rank_loop(_, _, _, _, _, _, _)
fv_set_rank_loop(old, new, dry, index, rerank, previous_issue, acc) ==
    IF index > Len(new) THEN acc
    ELSE IF index > Len(old) THEN [acc EXCEPT !.raised = TRUE]
    ELSE LET an_issue == new[index]
             rr == fv_rerank(rerank, an_issue, old[index])
             move == <<an_issue, previous_issue>>
             acc2 == IF rr /\ previous_issue # None
                     THEN IF dry THEN [acc EXCEPT !.would = Append(@, move)]
                          ELSE [acc EXCEPT !.calls = Append(@, move)]
                     ELSE acc
         IN  fv_set_rank_loop(old, new, dry, index + 1, rr, an_issue, acc2)

\* rules.team.fixversion_rank._set_rank
fv_set_rank(old, new, dry) ==
    fv_set_rank_loop(old, new, dry, 1, FALSE, None,
                     [calls |-> <<>>, would |-> <<>>, raised |-> FALSE])

(* ================= rules/team/priority_from_rank.py =================== *)

\* A slip in Blocks.__init__: the last block is no catch-all
pfr_blocks_no_catch_all ==
    << [priority |-> "Critical", num |-> 625, den |-> 10000, issues |-> <<>>],
       [priority |-> "Major", num |-> 125, den |-> 1000, issues |-> <<>>],
       [priority |-> "Normal", num |-> 25, den |-> 100, issues |-> <<>>],
       [priority |-> "Minor", num |-> 5, den |-> 10, issues |-> <<>>] >>

\* Blocks.__init__: the fixed blocks, in this order.  A threshold is the
\* decimal fraction of the code as numerator and denominator (0.0625, 0.125,
\* 0.25 and 1 are exact as floats, and so is the comparison with i / n)
pfr_blocks ==
    << [priority |-> "Critical", num |-> 625, den |-> 10000, issues |-> <<>>],
       [priority |-> "Major", num |-> 125, den |-> 1000, issues |-> <<>>],
       [priority |-> "Normal", num |-> 25, den |-> 100, issues |-> <<>>],
       [priority |-> "Minor", num |-> 1, den |-> 1, issues |-> <<>>] >>

\* A slip in Block.claims: < for <=
pfr_claims_strict(b, an_issue, iss) ==
    /\ iss # <<>>
    /\ (IndexOf(iss, an_issue) - 1) * b.den < Len(iss) * b.num

\* Block.claims(issue, issues): (i / n) <= self.threshold, i the index from 0
pfr_claims(b, an_issue, iss) ==
    /\ iss # <<>>
    /\ (IndexOf(iss, an_issue) - 1) * b.den <= Len(iss) * b.num

\* Blocks.add_issue: the index of the first block that claims the issue, 0
\* when none does (RuntimeError)
pfr_claiming_block(bs, an_issue, iss) ==
    LET claiming == {x \in 1..Len(bs) : pfr_claims(bs[x], an_issue, iss)}
    IN  IF claiming = {} THEN 0
        ELSE CHOOSE x \in claiming : \A y \in claiming : x <= y

\* Blocks.add_issue, the else of its for loop: no block claims the issue and
\* RuntimeError is raised.  Told of a list of blocks and a list of issues:
\* some issue of the list makes Blocks.__init__ raise.
pfr_raises(bs, iss) ==
    \E k \in 1..Len(iss) : pfr_claiming_block(bs, iss[k], iss) = 0

\* Blocks.add_issue
pfr_add_issue(bs, an_issue, iss) ==
    LET x == pfr_claiming_block(bs, an_issue, iss)
    IN  [bs EXCEPT ![x].issues = Append(@, an_issue)]

\* Blocks.__init__, its loop from the k-th issue on
RECURSIVE pfr_Blocks_from(_, _, _)
pfr_Blocks_from(bs, k, iss) ==
    IF k > Len(iss) THEN bs
    ELSE pfr_Blocks_from(pfr_add_issue(bs, iss[k], iss), k + 1, iss)

\* Blocks(issues)
pfr_Blocks(iss) == pfr_Blocks_from(pfr_blocks, 1, iss)

\* Blocks.get_issues
pfr_get_issues(bs) == Flatten([x \in 1..Len(bs) |-> bs[x].issues])

\* _set_priority: the writes it makes for one issue
pfr_set_priority(an_issue, current, priority, dry) ==
    IF current = priority THEN <<>>
    ELSE IF dry THEN <<>>
    ELSE << <<"update", an_issue, "priority", priority>>,
            <<"add_comment", an_issue>> >>

\* check_priority_from_rank, its loops: block after block and in each block
\* issue after issue
pfr_writes(bs, current, dry) ==
    Flatten([x \in 1..Len(bs) |->
        Flatten([y \in 1..Len(bs[x].issues) |->
            pfr_set_priority(bs[x].issues[y], current[bs[x].issues[y]],
                             bs[x].priority, dry)])])

(* ============ rules/team/priority_from_rank_by_component.py =========== *)

\* Components.from_issues, Component.add: the issue is appended to the
\* component of the name, which is created at the end when it is new
pfc_add(cs, name, an_issue) ==
    IF \E x \in 1..Len(cs) : cs[x].name = name
    THEN [x \in 1..Len(cs) |->
             IF cs[x].name = name
             THEN [cs[x] EXCEPT !.issues = Append(@, an_issue)]
             ELSE cs[x]]
    ELSE Append(cs, [name |-> name, issues |-> <<an_issue>>])

\* Components.from_issues, the inner loop over the components of one issue
RECURSIVE pfc_add_all(_, _, _)
pfc_add_all(cs, names, an_issue) ==
    IF names = <<>> THEN cs
    ELSE pfc_add_all(pfc_add(cs, Head(names), an_issue), Tail(names), an_issue)

\* Components.from_issues, the outer loop from the k-th issue on
RECURSIVE pfc_from_issues_from(_, _, _, _)
pfc_from_issues_from(cs, k, iss, components) ==
    IF k > Len(iss) THEN cs
    ELSE pfc_from_issues_from(pfc_add_all(cs, components[iss[k]], iss[k]),
                              k + 1, iss, components)

\* Components.from_issues(issues)
pfc_from_issues(iss, components) == pfc_from_issues_from(<<>>, 1, iss, components)

\* Components.from_subset([component for component in components
\*                         if issue in component])
pfc_relevant(cs, an_issue) ==
    SelectSeq(cs, LAMBDA c : an_issue \in Range(c.issues))

\* Components.assess: Assessment(component, component.index(issue),
\* len(component)); percentile = index / total is kept as the two numbers
pfc_assess(cs, an_issue) ==
    [x \in 1..Len(cs) |->
        [component |-> cs[x].name,
         index |-> IndexOf(cs[x].issues, an_issue) - 1,
         total |-> Len(cs[x].issues)]]

\* a.percentile <= b.percentile, for quotients of small integers
pfc_percentile_le(a, b) == a.index * b.total <= b.index * a.total

\* A slip in Components.priority: the last of the sorted assessments
pfc_leader_last(assessments) ==
    LET least == {x \in 1..Len(assessments) :
                     \A y \in 1..Len(assessments) :
                         pfc_percentile_le(assessments[y], assessments[x])}
    IN  assessments[CHOOSE x \in least : \A y \in least : x <= y]

\* sorted(assessments, key=op.attrgetter("percentile"))[0]: the first of the
\* assessments of least percentile (the sort is stable)
pfc_leader(assessments) ==
    LET least == {x \in 1..Len(assessments) :
                     \A y \in 1..Len(assessments) :
                         pfc_percentile_le(assessments[x], assessments[y])}
    IN  assessments[CHOOSE x \in least : \A y \in least : x <= y]

\* Components.priority: the list of priorities and thresholds, the
\* thresholds as numerator and denominator of the decimal fraction
pfc_priorities ==
    << [priority |-> "Critical", num |-> 625, den |-> 10000],
       [priority |-> "Major", num |-> 125, den |-> 1000],
       [priority |-> "Normal", num |-> 25, den |-> 100],
       [priority |-> "Minor", num |-> 1, den |-> 1] >>

\* Components.priority(issue) of the components the issue is in
pfc_priority(cs, an_issue) ==
    LET assessments == pfc_assess(cs, an_issue)
    IN  IF assessments = <<>> THEN "Undefined"
        ELSE LET leader == pfc_leader(assessments)
                 under == {x \in 1..Len(pfc_priorities) :
                              leader.index * pfc_priorities[x].den
                                  <= leader.total * pfc_priorities[x].num}
             IN  IF under = {} THEN "ValueError"
                 ELSE pfc_priorities[CHOOSE x \in under :
                                        \A y \in under : x <= y].priority

\* _set_priority: the writes it makes for one issue
pfc_set_priority(an_issue, current, priority, dry) ==
    IF current = priority THEN <<>>
    ELSE IF dry THEN <<>>
    ELSE << <<"update", an_issue, "priority", priority>>,
            <<"add_comment", an_issue>> >>

\* FixVersionBlock._earliest_fixversion_date: the least releaseDate of the
\* fixVersions that have one (a fixVersion without releaseDate is NoDate
\* here), None (NoDate) when there is none
fv_earliest_fixversion_date(i, isu) ==
    LET dates == {d \in Range(isu[i].fixVersions) : d # NoDate}
    IN  IF dates = {} THEN NoDate
        ELSE CHOOSE d \in dates : \A e \in dates : d <= e

\* FixVersionBlock._claims: date and date < critical_deadline
fv_fixversion_claims(i, isu) ==
    /\ fv_earliest_fixversion_date(i, isu) # NoDate
    /\ fv_earliest_fixversion_date(i, isu) < Today + FvHorizonDays

\* Block.claims and FixVersionBlock.claims
fv_claims(b, i, isu) ==
    IF b.fv THEN fv_fixversion_claims(i, isu) ELSE ~fv_fixversion_claims(i, isu)

\* Blocks.add_issue
fv_add_issue(bs, i, isu) ==
    LET claiming == {j \in 1..Len(bs) : fv_claims(bs[j], i, isu)}
    IN  IF claiming # {}
        THEN LET j == CHOOSE j \in claiming : \A m \in claiming : j <= m
             IN  [bs EXCEPT ![j].issues = Append(@, i)]
        ELSE Append(bs, [fv |-> FALSE, issues |-> <<i>>])

\* Blocks.__init__: self.blocks = [FixVersionBlock()], then add_issue for
\* each issue of the list, in order
RECURSIVE fv_Blocks_from(_, _, _)
fv_Blocks_from(bs, iss, isu) ==
    IF iss = <<>> THEN bs
    ELSE fv_Blocks_from(fv_add_issue(bs, Head(iss), isu), Tail(iss), isu)

fv_Blocks(iss, isu) == fv_Blocks_from(<<[fv |-> TRUE, issues |-> <<>>]>>, iss, isu)

\* A slip in the sort key of yield_issues: an issue without a due date
\* sorts as the earliest instead of the latest
fv_duedate_none_first(i, isu) == isu[i].duedate

\* The sort key of FixVersionBlock.yield_issues: duedate or "9999-99-99"
fv_duedate(i, isu) ==
    IF isu[i].duedate = NoDate THEN FarFuture ELSE isu[i].duedate

\* sorted(self.issues, key=duedate): a stable sort
RECURSIVE fv_sorted_by_duedate(_, _)
fv_sorted_by_duedate(s, isu) ==
    IF s = <<>> THEN <<>>
    ELSE LET init == fv_sorted_by_duedate(SubSeq(s, 1, Len(s) - 1), isu)
             x == s[Len(s)]
             at == Cardinality({j \in 1..Len(init) :
                                   fv_duedate(init[j], isu) <= fv_duedate(x, isu)})
         IN  ListInsert(init, at, x)

\* FixVersionBlock.yield_issues reads self.issues[0] first: IndexError when
\* the block has no issue
fv_yield_raises(b) == b.fv /\ b.issues = <<>>

\* Block.yield_issues and FixVersionBlock.yield_issues
fv_yield_issues(b, isu) ==
    IF b.fv THEN fv_sorted_by_duedate(b.issues, isu) ELSE b.issues

\* Blocks.get_issues: [raised, issues]; the exception of a block ends it
fv_get_issues(bs, isu) ==
    IF \E x \in 1..Len(bs) : fv_yield_raises(bs[x])
    THEN [raised |-> TRUE, issues |-> <<>>]
    ELSE [raised |-> FALSE,
          issues |-> Flatten([x \in 1..Len(bs) |-> fv_yield_issues(bs[x], isu)])]

\* Blocks._prioritize_fixversion_block
fv_prioritize_fixversion_block(bs) ==
    SelectSeq(bs, LAMBDA b : b.fv) \o SelectSeq(bs, LAMBDA b : ~b.fv)

\* Blocks.sort
fv_sort(bs) == fv_prioritize_fixversion_block(bs)

(* ==================== rules/program/target_end.py ===================== *)

\* listify(epics): [raised, text]; the text is the list of its pieces, keys
\* and separators.  An empty list raises ValueError.
te_listify(keys) ==
    IF Len(keys) = 0 THEN [raised |-> TRUE, text |-> <<>>]
    ELSE IF Len(keys) = 1 THEN [raised |-> FALSE, text |-> <<keys[1]>>]
    ELSE IF Len(keys) = 2
    THEN [raised |-> FALSE, text |-> <<keys[1], " and ", keys[2]>>]
    ELSE [raised |-> FALSE,
          text |-> Flatten([x \in 1..(Len(keys) - 1) |->
                              IF x = 1 THEN <<keys[x]>> ELSE <<", ", keys[x]>>])
                   \o <<" and ", keys[Len(keys)]>>]

\* The children that check_target_end_date keeps: those whose status
\* category is not "Done" (indexes into the list of children)
te_children(children) ==
    SelectSeq([x \in 1..Len(children) |-> x],
              LAMBDA x : children[x].category # "Done")

\* The loop over the kept children from the k-th on:
\* [target_end_date, target_source, estimated, unestimated]
RECURSIVE te_loop(_, _, _, _)
te_loop(kept, k, children, acc) ==
    IF k > Len(kept) THEN acc
    ELSE LET i == kept[k]
             related == children[i].target_end
         IN  IF related = NoDate
             THEN te_loop(kept, k + 1, children,
                          [acc EXCEPT !.unestimated = Append(@, i)])
             ELSE LET later == acc.target_end_date = NoDate
                                  \/ acc.target_end_date < related
                  IN  te_loop(kept, k + 1, children,
                          [acc EXCEPT !.estimated = Append(@, i),
                                      !.target_end_date =
                                          IF later THEN related ELSE @,
                                      !.target_source =
                                          IF later THEN i ELSE @])

\* proportion_estimated < estimation_threshold, with 0.75 as 75 / 100; the
\* proportion is 0 when there is no kept child
te_below_threshold(n_estimated, n_children) ==
    IF n_children = 0 THEN TRUE
    ELSE n_estimated * 100 < 75 * n_children

\* int(proportion_estimated * 100), exact for the sizes of the model
te_percent(n_estimated, n_children) ==
    IF n_children = 0 THEN 0 ELSE (n_estimated * 100) \div n_children

\* check_target_end_date(issue, context, dry_run): [raised, messages, writes]
te_check_target_end_date(end_date, children, dry) ==
    LET kept == te_children(children)
        res == te_loop(kept, 1, children,
                       [target_end_date |-> NoDate, target_source |-> None,
                        estimated |-> <<>>, unestimated |-> <<>>])
        below == te_below_threshold(Len(res.estimated), Len(kept))
        target_end_date == IF below THEN NoDate ELSE res.target_end_date
        changed == \/ target_end_date = NoDate /\ end_date # NoDate
                   \/ /\ target_end_date # NoDate
                      /\ (end_date = NoDate \/ end_date # target_end_date)
        listed == te_listify(res.unestimated)
        message == IF below
                   THEN [date |-> target_end_date,
                         percent |-> te_percent(Len(res.estimated), Len(kept)),
                         unestimated |-> listed.text, source |-> None]
                   ELSE [date |-> target_end_date, percent |-> 100,
                         unestimated |-> <<>>, source |-> res.target_source]
    IN  IF ~changed
        THEN [raised |-> FALSE, messages |-> <<>>, writes |-> <<>>]
        ELSE IF below /\ listed.raised
        THEN [raised |-> TRUE, messages |-> <<>>, writes |-> <<>>]
        ELSE [raised |-> FALSE, messages |-> <<message>>,
              writes |-> IF dry THEN <<>>
                         ELSE << <<"update", "Target End Date",
                                   target_end_date>> >>]

(* ============================ the inputs ============================== *)

Max(S) == CHOOSE x \in S : \A y \in S : y <= x

Identity(n) == [i \in 1..n |-> i]

\* The issue tables of n issues.  The parents are numbered in the order in
\* which the list first refers to them (their ids are opaque keys).
IssueTables(n, dates) ==
    {f \in [1..n -> [parent : 0..n, duedate : dates, project : {TeamProject}]] :
        \A i \in 1..n :
            f[i].parent <= 1 + Max({0} \cup {f[j].parent : j \in 1..(i - 1)})}

NumParents(isu) == Max({0} \cup {isu[i].parent : i \in DOMAIN isu})

\* The parent tables of k parents.  Ranks are only compared with <, so the
\* ranks in use are 0..m for some m (equal ranks included).
ParentTables(k, projects, statuses) ==
    {g \in [1..k -> [project : projects, rank : 0..(k - 1), status : statuses]] :
        \A p \in 1..k :
            g[p].rank = 0 \/ \E q \in 1..k : g[q].rank = g[p].rank - 1}

\* The rank orders of the tracker that hold the parents ps somewhere among
\* the issues of t
RECURSIVE Interleavings(_, _)
Interleavings(t, ps) ==
    IF ps = {} THEN {t}
    ELSE LET p == CHOOSE p \in ps : TRUE
         IN  UNION {{ListInsert(u, at, -p) : at \in 0..Len(u)} :
                       u \in Interleavings(t, ps \ {p})}

Permutations_of(n) ==
    {s \in [1..n -> 1..n] : \A i, j \in 1..n : s[i] = s[j] => i = j}

\* The due dates of the inputs: none, two before the deadline and the
\* deadline itself
DueDates ==
    {NoDate, critical_deadline - 60, critical_deadline - 30, critical_deadline}

\* tests/conftest.py, the fixture `issues`: child0, child1..child3 with the
\* parents parent1..parent3, child4; all of one project
FixtureIssue ==
    [i \in 1..5 |->
        [parent |-> CASE i = 2 -> 1 [] i = 3 -> 2 [] i = 4 -> 3 [] OTHER -> None,
         duedate |-> NoDate, project |-> TeamProject]]

\* The parents of the fixture; rank3 is the rank of parent3, which
\* test_rank_single_move sets to 0
FixtureParents(rank3) ==
    [p \in 1..3 |->
        [project |-> TeamProject,
         rank |-> CASE p = 1 -> 1 [] p = 2 -> 3 [] OTHER -> rank3,
         status |-> ToDo]]

NoRun ==
    /\ runs = 0
    /\ issues = <<>>
    /\ blocks = <<>>
    /\ old_ranking = <<>>
    /\ new_ranking = <<>>
    /\ calls = <<>>
    /\ would = <<>>
    /\ raised = FALSE

(* ======================= check_rank (rules.team.rank) ================= *)

\* The state before check_rank runs with --dry-run
InitRank ==
    /\ which = "rank"
    /\ dry_run = TRUE
    /\ \/ \E n \in 0..MaxIssues :
            /\ issue \in IssueTables(n, {NoDate})
            /\ favor_status \in BOOLEAN
            /\ parents \in ParentTables(NumParents(issue), Projects,
                                        IF favor_status THEN Statuses ELSE {ToDo})
            /\ tracker = Identity(n)
       \/ /\ issue = FixtureIssue
          /\ favor_status = FALSE
          /\ parents \in {FixtureParents(5), FixtureParents(0)}
          /\ tracker = Identity(5)
    /\ NoRun
    /\ NoRule

\* The state before a live check_rank: the parents of the team's own project
\* are ranked somewhere in the same rank order
InitRankLive ==
    /\ which = "rank"
    /\ dry_run = FALSE
    /\ favor_status = FALSE
    /\ \E n \in 0..MaxIssues :
            /\ issue \in IssueTables(n, {NoDate})
            /\ parents \in ParentTables(NumParents(issue), Projects, {ToDo})
            /\ tracker \in Interleavings(Identity(n),
                   {p \in DOMAIN parents : parents[p].project = TeamProject})
    /\ NoRun
    /\ NoRule

\* check_rank: one run of the rule on the result of the query
check_rank ==
    /\ which = "rank"
    /\ runs < MaxRuns
    /\ (dry_run /\ runs > 0) => query_issues(tracker) = query_issues(new_ranking)
    /\ LET iss == query_issues(tracker)
           bs == rank_Blocks(iss, issue)
           old == rank_get_issues(bs, issue, parents)
           sorted == rank_sort(bs, parents, favor_status)
           new == rank_get_issues(sorted, issue, parents)
           res == rank_set_rank(old, new, dry_run)
       IN  /\ issues' = iss
           /\ blocks' = sorted
           /\ old_ranking' = old
           /\ new_ranking' = new
           /\ calls' = res.calls
           /\ would' = res.would
           /\ raised' = res.raised
           /\ tracker' = tracker_apply(tracker, res.calls)
    /\ runs' = runs + 1
    /\ UNCHANGED rule_vars
    /\ UNCHANGED <<parents, issue, favor_status, dry_run, which>>

\* The ranking a dry run computed becomes the rank order of the tracker (the
\* engine's output taken as the next old order)
adopt_ranking ==
    /\ which = "rank"
    /\ dry_run
    /\ runs > 0
    /\ query_issues(tracker) # query_issues(new_ranking)
    /\ tracker' = query_issues(new_ranking)
    /\ UNCHANGED rule_vars
    /\ UNCHANGED <<parents, issue, favor_status, dry_run, which, runs, issues,
                   blocks, old_ranking, new_ranking, calls, would, raised>>

NextRank == check_rank \/ adopt_ranking

SpecRank == InitRank /\ [][NextRank]_vars

NextRankLive == check_rank

SpecRankLive == InitRankLive /\ [][NextRankLive]_vars

(* ============ check_timesensitive_rank (timesensitive_rank) =========== *)

\* The state before a live check_timesensitive_rank.  The rule never reads
\* the name of a project, it only compares the projects of the parents, so
\* the first parent is taken to be of the team's project.
InitTS ==
    /\ which = "timesensitive"
    /\ dry_run = FALSE
    /\ favor_status = FALSE
    /\ \E n \in 0..MaxIssues :
            /\ issue \in IssueTables(n, DueDates)
            /\ parents \in {g \in ParentTables(NumParents(issue), Projects, Statuses) :
                               DOMAIN g # {} => g[1].project = TeamProject}
            /\ tracker = Identity(n)
    /\ NoRun
    /\ NoRule

\* check_timesensitive_rank: one run of the rule on the result of the query
check_timesensitive_rank ==
    /\ which = "timesensitive"
    /\ runs < MaxRuns
    /\ LET iss == query_issues(tracker)
           bs == ts_Blocks(iss, issue)
           sorted == ts_sort(bs, parents)
           new == ts_get_issues(sorted, issue)
           res == ts_set_rank(iss, new, dry_run)
       IN  /\ issues' = iss
           /\ blocks' = sorted
           /\ old_ranking' = iss
           /\ new_ranking' = new
           /\ calls' = res.calls
           /\ would' = res.would
           /\ raised' = res.raised
           /\ tracker' = tracker_apply(tracker, res.calls)
    /\ runs' = runs + 1
    /\ UNCHANGED rule_vars
    /\ UNCHANGED <<parents, issue, favor_status, dry_run, which>>

NextTS == check_timesensitive_rank

SpecTS == InitTS /\ [][NextTS]_vars

(* ======== timesensitive_rank.Blocks(issues, manual_override=...) ====== *)

\* The state before Blocks is built from a list of issues, with or without
\* a manual_override predicate; input.matched holds the issues that the
\* predicate is true of
InitTSBlocks ==
    /\ which = "timesensitive.Blocks"
    /\ dry_run = FALSE
    /\ favor_status = FALSE
    /\ parents = <<>>
    /\ \E n \in 0..MaxIssues :
            /\ issue \in IssueTables(n, DueDates)
            /\ tracker = Identity(n)
            /\ \/ input = [keywords |-> {}, matched |-> {}]
               \/ \E m \in SUBSET (1..n) :
                     input = [keywords |-> {"manual_override"}, matched |-> m]
    /\ NoRun
    /\ context = EmptyContext
    /\ writes = <<>>
    /\ output = <<>>

\* blocks = rules.team.timesensitive_rank.Blocks(issue_list, manual_override=...)
Blocks_manual_override ==
    /\ which = "timesensitive.Blocks"
    /\ runs = 0
    /\ LET iss == query_issues(tracker)
           res == ts_Blocks_call(iss, issue, input.keywords)
       IN  /\ issues' = iss
           /\ blocks' = res.blocks
           /\ raised' = res.raised
    /\ runs' = 1
    /\ UNCHANGED rule_vars
    /\ UNCHANGED <<parents, issue, tracker, favor_status, dry_run, which,
                   old_ranking, new_ranking, calls, would>>

NextTSBlocks == Blocks_manual_override

SpecTSBlocks == InitTSBlocks /\ [][NextTSBlocks]_vars

(* ============ check_fixversion_rank (fixversion_rank) ================= *)

\* The fixVersions an issue can have, as the list of their release dates
FixVersionLists ==
    {<<>>, <<NoDate>>, <<Today + 30>>, <<Today + FvHorizonDays>>,
     <<Today + FvHorizonDays, Today + 30>>}

\* The state before a live check_fixversion_rank
InitFixVersion ==
    /\ which = "fixversion"
    /\ dry_run = FALSE
    /\ favor_status = FALSE
    /\ parents = <<>>
    /\ \E n \in 0..MaxIssues :
            /\ issue \in [1..n -> [parent : {None}, project : {TeamProject},
                                   duedate : {NoDate, Today + 10, Today + 20},
                                   fixVersions : FixVersionLists]]
            /\ tracker = Identity(n)
    /\ NoRun
    /\ NoRule

\* check_fixversion_rank: one run of the rule on the result of the query
check_fixversion_rank ==
    /\ which = "fixversion"
    /\ runs < MaxRuns
    /\ LET iss == query_issues(tracker)
           bs == fv_Blocks(iss, issue)
           sorted == fv_sort(bs)
           got == fv_get_issues(sorted, issue)
           res == IF got.raised
                  THEN [calls |-> <<>>, would |-> <<>>, raised |-> TRUE]
                  ELSE fv_set_rank(iss, got.issues, dry_run)
       IN  /\ issues' = iss
           /\ blocks' = sorted
           /\ old_ranking' = iss
           /\ new_ranking' = got.issues
           /\ calls' = res.calls
           /\ would' = res.would
           /\ raised' = res.raised
           /\ tracker' = tracker_apply(tracker, res.calls)
    /\ runs' = runs + 1
    /\ UNCHANGED rule_vars
    /\ UNCHANGED <<parents, issue, favor_status, dry_run, which>>

NextFixVersion == check_fixversion_rank

SpecFixVersion == InitFixVersion /\ [][NextFixVersion]_vars

(* ======== the rules whose blocks keep the order of arrival ============ *)

InitArrival == InitRank \/ InitTS \/ InitFixVersion

NextArrival ==
    check_rank \/ adopt_ranking \/ check_timesensitive_rank \/ check_fixversion_rank

SpecArrival == InitArrival /\ [][NextArrival]_vars

(* ============================ _set_rank =============================== *)

\* _set_rank of either module, given two rankings of the same issues; the
\* tracker holds the old ranking
InitSetRank ==
    /\ which \in {"rank._set_rank", "timesensitive._set_rank"}
    /\ dry_run \in BOOLEAN
    /\ favor_status = FALSE
    /\ parents = <<>>
    /\ issue = <<>>
    /\ \E n \in 0..MaxIssues :
            /\ tracker \in Permutations_of(n)
            /\ new_ranking \in Permutations_of(n)
    /\ old_ranking = tracker
    /\ runs = 0
    /\ issues = <<>>
    /\ blocks = <<>>
    /\ calls = <<>>
    /\ would = <<>>
    /\ raised = FALSE
    /\ NoRule

\* _set_rank(jira_client, old_ranking, new_ranking, dry_run)
set_rank ==
    /\ which \in {"rank._set_rank", "timesensitive._set_rank"}
    /\ runs = 0
    /\ LET res == IF which = "rank._set_rank"
                  THEN rank_set_rank(old_ranking, new_ranking, dry_run)
                  ELSE ts_set_rank(old_ranking, new_ranking, dry_run)
       IN  /\ calls' = res.calls
           /\ would' = res.would
           /\ raised' = res.raised
           /\ tracker' = tracker_apply(tracker, res.calls)
    /\ runs' = 1
    /\ UNCHANGED rule_vars
    /\ UNCHANGED <<parents, issue, favor_status, dry_run, which, issues, blocks,
                   old_ranking, new_ranking>>

NextSetRank == set_rank

SpecSetRank == InitSetRank /\ [][NextSetRank]_vars

(* =============== _set_rank on rankings of any two lists ================ *)

\* The duplicate-free lists of at most n of the issues 1..n
Lists_of(n) ==
    UNION {{s \in [1..m -> 1..n] : \A i, j \in 1..m : s[i] = s[j] => i = j} :
              m \in 0..n}

\* The state before _set_rank is called with two lists that need not hold
\* the same issues; the tracker ranks all the issues there are
InitSetRankAny ==
    /\ which \in {"rank._set_rank/any", "fixversion._set_rank/any"}
    /\ dry_run \in BOOLEAN
    /\ favor_status = FALSE
    /\ parents = <<>>
    /\ issue = <<>>
    /\ tracker = Identity(MaxIssues)
    /\ old_ranking \in Lists_of(MaxIssues)
    /\ new_ranking \in Lists_of(MaxIssues)
    /\ runs = 0
    /\ issues = <<>>
    /\ blocks = <<>>
    /\ calls = <<>>
    /\ would = <<>>
    /\ raised = FALSE
    /\ NoRule

\* _set_rank(jira_client, old_ranking, new_ranking, dry_run); the rank calls
\* made before an exception have reached the tracker
set_rank_any ==
    /\ which \in {"rank._set_rank/any", "fixversion._set_rank/any"}
    /\ runs = 0
    /\ LET res == IF which = "rank._set_rank/any"
                  THEN rank_set_rank(old_ranking, new_ranking, dry_run)
                  ELSE fv_set_rank(old_ranking, new_ranking, dry_run)
       IN  /\ calls' = res.calls
           /\ would' = res.would
           /\ raised' = res.raised
           /\ tracker' = tracker_apply(tracker, res.calls)
    /\ runs' = 1
    /\ UNCHANGED rule_vars
    /\ UNCHANGED <<parents, issue, favor_status, dry_run, which, issues, blocks,
                   old_ranking, new_ranking>>

NextSetRankAny == set_rank_any

SpecSetRankAny == InitSetRankAny /\ [][NextSetRankAny]_vars

(* ===================== check_priority_from_rank ======================= *)

\* The priority names of the tracker
PriorityNames == {"Undefined", "Critical", "Major", "Normal", "Minor"}

\* The ranking rules are not under run
NoRanking ==
    /\ parents = <<>>
    /\ issue = <<>>
    /\ tracker = <<>>
    /\ favor_status = FALSE
    /\ issues = <<>>
    /\ blocks = <<>>
    /\ old_ranking = <<>>
    /\ new_ranking = <<>>
    /\ calls = <<>>
    /\ would = <<>>

\* The state before check_priority_from_rank: the issues of one query, in
\* rank order, each with the priority it has now
InitPriority ==
    /\ which = "priority_from_rank"
    /\ dry_run \in BOOLEAN
    /\ \E n \in 0..MaxRanked : \E p \in PriorityNames :
          input = [issues |-> Identity(n), priority |-> [k \in 1..n |-> p]]
    /\ context = EmptyContext
    /\ writes = <<>>
    /\ output = <<>>
    /\ runs = 0
    /\ raised = FALSE
    /\ NoRanking

\* check_priority_from_rank(issues, context, dry_run)
check_priority_from_rank ==
    /\ which = "priority_from_rank"
    /\ runs = 0
    /\ output = <<>>
    /\ IF pfr_raises(pfr_blocks, input.issues)
       THEN /\ raised' = TRUE
            /\ UNCHANGED <<output, writes>>
       ELSE LET bs == pfr_Blocks(input.issues)
            IN  /\ raised' = FALSE
                /\ output' = [k \in 1..Len(input.issues) |->
                                bs[CHOOSE x \in 1..Len(bs) :
                                      k \in Range(bs[x].issues)].priority]
                /\ writes' = pfr_writes(bs, input.priority, dry_run)
    /\ runs' = 1
    /\ UNCHANGED <<input, context, dry_run, which>>
    /\ UNCHANGED ranking_vars

NextPriority == check_priority_from_rank

SpecPriority == InitPriority /\ [][NextPriority]_vars

(* ================ check_priority_from_rank_by_component =============== *)

\* The component lists an issue can have
ComponentLists == {<<>>, <<"A">>, <<"B">>, <<"A", "B">>}

\* The components of the issue k of a long backlog in which the component A
\* has the first a issues and the component B the issues from the b-th on
HeadAndTail(k, a, b) ==
    (IF k <= a THEN <<"A">> ELSE <<>>) \o (IF k >= b THEN <<"B">> ELSE <<>>)

\* The state before check_priority_from_rank_by_component: the issues of one
\* query in rank order, each with its components and the priority it has now
InitByComponent ==
    /\ which = "priority_from_rank_by_component"
    /\ dry_run \in BOOLEAN
    /\ \/ \E n \in 0..MaxByComponent :
             \E cs \in [1..n -> ComponentLists] :
                 input = [issues |-> Identity(n),
                          components |-> cs,
                          priority |-> [k \in 1..n |-> "Minor"]]
       \/ \E n \in 0..MaxRanked : \E a \in 0..n, b \in 1..(n + 1) :
             input = [issues |-> Identity(n),
                      components |-> [k \in 1..n |-> HeadAndTail(k, a, b)],
                      priority |-> [k \in 1..n |-> "Critical"]]
    /\ context = EmptyContext
    /\ writes = <<>>
    /\ output = <<>>
    /\ runs = 0
    /\ raised = FALSE
    /\ NoRanking

\* check_priority_from_rank_by_component(issues, context, dry_run)
check_priority_from_rank_by_component ==
    /\ which = "priority_from_rank_by_component"
    /\ runs = 0
    /\ LET components == pfc_from_issues(input.issues, input.components)
           priority == [k \in 1..Len(input.issues) |->
                           pfc_priority(pfc_relevant(components, input.issues[k]),
                                        input.issues[k])]
       IN  /\ output' = [x \in 1..Len(input.issues) |->
                           priority[IndexOf(input.issues, x)]]
           /\ writes' = Flatten([k \in 1..Len(input.issues) |->
                            pfc_set_priority(input.issues[k],
                                             input.priority[input.issues[k]],
                                             priority[k], dry_run)])
    /\ runs' = 1
    /\ UNCHANGED <<input, context, raised, dry_run, which>>
    /\ UNCHANGED ranking_vars

NextByComponent == check_priority_from_rank_by_component

SpecByComponent == InitByComponent /\ [][NextByComponent]_vars

(* ======================= check_target_end_date ======================== *)

\* The statuses of a child, each with its status category
ChildStatuses ==
    {[status |-> "Closed", category |-> "Done"],
     [status |-> "Release Pending", category |-> "Done"],
     [status |-> "In Progress", category |-> "In Progress"]}

\* The target end dates of the inputs, as day numbers
TargetDates == {NoDate, Today + 15, Today + 30}

\* The state before check_target_end_date: an issue with its target end date
\* and its children
InitTargetEnd ==
    /\ which = "target_end"
    /\ dry_run \in BOOLEAN
    /\ \E n \in 0..MaxChildren : \E e \in TargetDates :
          \E cs \in [1..n -> {[status |-> st.status, category |-> st.category,
                               target_end |-> d] :
                                 st \in ChildStatuses, d \in TargetDates}] :
              input = [end_date |-> e, children |-> cs]
    /\ context = EmptyContext
    /\ writes = <<>>
    /\ output = <<>>
    /\ runs = 0
    /\ raised = FALSE
    /\ NoRanking

\* check_target_end_date(issue, context, dry_run)
check_target_end_date ==
    /\ which = "target_end"
    /\ runs = 0
    /\ LET res == te_check_target_end_date(input.end_date, input.children, dry_run)
       IN  /\ raised' = res.raised
           /\ context' = [updates |-> context.updates \o res.messages,
                          comments |-> context.comments \o res.messages]
           /\ writes' = writes \o res.writes
    /\ runs' = 1
    /\ UNCHANGED <<input, output, dry_run, which>>
    /\ UNCHANGED ranking_vars

NextTargetEnd == check_target_end_date

SpecTargetEnd == InitTargetEnd /\ [][NextTargetEnd]_vars

(* ===== automation.process_type, utils/jira.py, the per-issue rules ==== *)

PRIORITY == <<"Undefined", "Minor", "Normal", "Major", "Critical", "Blocker">>

\* re_issue_key.match(name), "[A-Z]*-[0-9]*", on the version names of the model
re_issue_key(name) == name \in {"OUT-1", "OUT-2"}

\* re_quarter.match(label), "[0-9]{4}Q[1-4]", on the labels of the model
re_quarter(label) == label \in {"2025Q1", "2025Q2"}

non_compliant_flag == "Non-compliant"

\* x in a_list
InList(x, a_list) == IndexOf(a_list, x) # 0

\* a_list.remove(x): removes the first occurrence
ListRemove(a_list, x) ==
    LET k == IndexOf(a_list, x)
    IN  IF k = 0 THEN a_list
        ELSE SubSeq(a_list, 1, k - 1) \o SubSeq(a_list, k + 1, Len(a_list))

\* utils.jira.get_version(jira_client, project_key, version, description):
\* the version of that name, created in the project when there is none.
\* Returns the versions of the project afterwards and the writes made.
get_version(versions, version) ==
    IF version \in versions
    THEN [versions |-> versions, writes |-> <<>>]
    ELSE [versions |-> versions \cup {version},
          writes |-> << <<"create_version", version>> >>]

\* rules.team.outcome_version.set_fix_version(issue, context, dry_run).
\* fields is the issue as held in memory (and the versions of its project),
\* ctx the context; the result holds both and the writes made on the tracker.
set_fix_version(inp, fields, ctx, dry) ==
    IF inp.parent = <<>>
    THEN [fields |-> fields, context |-> ctx, writes |-> <<>>]
    ELSE
    LET outcome == inp.parent[1].outcome
        version_name == IF outcome = <<>> \/ outcome[1].issuetype # "Outcome"
                        THEN <<>> ELSE <<outcome[1].key>>
        stale(name) == re_issue_key(name) /\ <<name>> # version_name
        removed == SelectSeq(fields.fixVersions, stale)
        kept == SelectSeq(fields.fixVersions, LAMBDA name : ~stale(name))
        adding == version_name # <<>> /\ ~InList(version_name[1], kept)
        got == IF adding THEN get_version(fields.versions, outcome[1].key)
               ELSE [versions |-> fields.versions, writes |-> <<>>]
        fix_versions == IF adding THEN Append(kept, version_name[1]) ELSE kept
        updated == removed # <<>> \/ adding
    IN  [fields |-> [fields EXCEPT !.fixVersions = fix_versions,
                                   !.versions = got.versions],
         context |-> [ctx EXCEPT !.updates =
             @ \o [k \in 1..Len(removed) |->
                      <<"Removing Fix Version", removed[k]>>]
               \o (IF adding THEN << <<"Adding Fix Version", version_name[1]>> >>
                   ELSE <<>>)],
         writes |-> got.writes
                    \o (IF updated /\ ~dry
                        THEN << <<"update", "fixVersions", fix_versions>> >>
                        ELSE <<>>)]

\* rules.team.priority._get_max_priority(issues), on their priorities
get_max_priority(priorities) ==
    IF priorities = <<>> THEN PRIORITY[1]
    ELSE PRIORITY[Max({IndexOf(PRIORITY, priorities[k]) :
                          k \in 1..Len(priorities)})]

\* rules.team.priority.check_priority(issue, context, dry_run); refresh() of
\* the parent is utils.jira.update(parent, {}), an update without data
check_priority(inp, fields, ctx, dry) ==
    LET related == inp.blocks
                   \o (IF inp.parent = <<>> THEN <<>>
                       ELSE <<inp.parent[1].priority>>)
        target_priority == get_max_priority(related)
    IN  [fields |-> IF dry THEN fields
                    ELSE [fields EXCEPT !.priority = target_priority],
         context |-> IF fields.priority # target_priority
                     THEN [ctx EXCEPT !.updates =
                              Append(@, <<"Issue priority set to",
                                          target_priority, fields.priority>>)]
                     ELSE ctx,
         writes |-> (IF inp.parent = <<>> THEN <<>>
                     ELSE << <<"update", "parent", <<>> >> >>)
                    \o (IF dry THEN <<>>
                        ELSE << <<"update", "priority", target_priority>> >>)]

\* The first loop of check_quarter_label, over the labels of the parent from
\* the k-th on: acc is [labels, updates, updated]
RECURSIVE quarter_label_add(_, _, _, _)
quarter_label_add(parent_labels, k, acc, dry) ==
    IF k > Len(parent_labels) THEN acc
    ELSE LET label == parent_labels[k]
         IN  IF re_quarter(label) /\ ~InList(label, acc.labels)
             THEN quarter_label_add(parent_labels, k + 1,
                      [labels |-> IF dry THEN acc.labels
                                  ELSE Append(acc.labels, label),
                       updates |-> Append(acc.updates, <<"Adding label", label>>),
                       updated |-> acc.updated \/ ~dry], dry)
             ELSE quarter_label_add(parent_labels, k + 1, acc, dry)

\* The second loop, over the labels of the issue: the list is iterated by
\* position while a live run removes from it
RECURSIVE quarter_label_remove(_, _, _, _)
quarter_label_remove(parent_labels, k, acc, dry) ==
    IF k > Len(acc.labels) THEN acc
    ELSE LET label == acc.labels[k]
         IN  IF re_quarter(label) /\ ~InList(label, parent_labels)
             THEN quarter_label_remove(parent_labels, k + 1,
                      [labels |-> IF dry THEN acc.labels
                                  ELSE ListRemove(acc.labels, label),
                       updates |-> Append(acc.updates, <<"Removing label", label>>),
                       updated |-> acc.updated \/ ~dry], dry)
             ELSE quarter_label_remove(parent_labels, k + 1, acc, dry)

\* rules.team.quarter_label.check_quarter_label(issue, context, dry_run)
check_quarter_label(inp, fields, ctx, dry) ==
    IF inp.parent = <<>>
    THEN [fields |-> fields, context |-> ctx, writes |-> <<>>]
    ELSE
    LET added == quarter_label_add(inp.parent[1].labels, 1,
                     [labels |-> fields.labels, updates |-> <<>>,
                      updated |-> FALSE], dry)
        res == quarter_label_remove(inp.parent[1].labels, 1, added, dry)
    IN  [fields |-> [fields EXCEPT !.labels = res.labels],
         context |-> [ctx EXCEPT !.updates = @ \o res.updates],
         writes |-> IF res.updated
                    THEN << <<"update", "labels", res.labels>> >>
                    ELSE <<>>]

\* rules.team.parent.check_parent_link(issue, context, _), without a cel
\* expression to ignore issues
check_parent_link(inp, fields, ctx, dry) ==
    [fields |-> fields,
     context |-> IF inp.parent = <<>>
                 THEN [ctx EXCEPT !.non_compliant = TRUE,
                                  !.comments = Append(@, <<"Issue is missing the link to its parent">>)]
                 ELSE ctx,
     writes |-> <<>>]

\* A slip in set_non_compliant_flag: the comments of an issue that is
\* already marked and still non-compliant are not cleared
set_non_compliant_flag_keeps_comments(inp, fields, ctx, dry) ==
    LET has_non_compliant_flag == InList(non_compliant_flag, fields.labels)
    IN  IF dry
        THEN [fields |-> fields, context |-> ctx, writes |-> <<>>]
        ELSE IF has_non_compliant_flag
        THEN IF ~ctx.non_compliant
             THEN LET labels == ListRemove(fields.labels, non_compliant_flag)
                  IN  [fields |-> [fields EXCEPT !.labels = labels],
                       context |-> [ctx EXCEPT !.comments =
                                       << <<"Issue is now compliant">> >>],
                       writes |-> << <<"update", "labels", labels>> >>]
             ELSE [fields |-> fields, context |-> ctx, writes |-> <<>>]
        ELSE IF ctx.non_compliant
        THEN LET labels == Append(fields.labels, non_compliant_flag)
             IN  [fields |-> [fields EXCEPT !.labels = labels],
                  context |-> ctx,
                  writes |-> << <<"update", "labels", labels>> >>]
        ELSE [fields |-> fields, context |-> ctx, writes |-> <<>>]

\* utils.jira.set_non_compliant_flag(issue, context, dry_run)
set_non_compliant_flag(inp, fields, ctx, dry) ==
    LET has_non_compliant_flag == InList(non_compliant_flag, fields.labels)
    IN  IF dry
        THEN [fields |-> fields, context |-> ctx, writes |-> <<>>]
        ELSE IF has_non_compliant_flag
        THEN IF ~ctx.non_compliant
             THEN LET labels == ListRemove(fields.labels, non_compliant_flag)
                  IN  [fields |-> [fields EXCEPT !.labels = labels],
                       context |-> [ctx EXCEPT !.comments =
                                       << <<"Issue is now compliant">> >>],
                       writes |-> << <<"update", "labels", labels>> >>]
             ELSE [fields |-> fields,
                   context |-> [ctx EXCEPT !.comments = <<>>],
                   writes |-> <<>>]
        ELSE IF ctx.non_compliant
        THEN LET labels == Append(fields.labels, non_compliant_flag)
             IN  [fields |-> [fields EXCEPT !.labels = labels],
                  context |-> ctx,
                  writes |-> << <<"update", "labels", labels>> >>]
        ELSE [fields |-> fields, context |-> ctx, writes |-> <<>>]

\* automation.add_comment(issue, context, dry_run, footer)
add_comment(inp, fields, ctx, dry) ==
    [fields |-> fields,
     context |-> ctx,
     writes |-> IF ctx.comments # <<>> /\ ~dry
                THEN << <<"add_comment",
                          IF inp.footer # "" THEN Append(ctx.comments, <<inp.footer>>)
                          ELSE ctx.comments>> >>
                ELSE <<>>]

(* ====================== automation.process_type ======================= *)

\* The per-issue rules that a configuration may list
IssueRules ==
    {"set_fix_version", "check_priority", "check_quarter_label",
     "check_parent_link"}

\* The lists of checks of a configuration: up to MaxChecks different rules
CheckLists ==
    UNION {{c \in [1..n -> IssueRules] :
               \A i, j \in 1..n : i # j => c[i] # c[j]} : n \in 0..MaxChecks}

\* The parent of the issue, if any, with the parent of that parent
ParentsOfIssue ==
    {<<>>} \cup
    {<<[priority |-> p, labels |-> l, outcome |-> o]>> :
        p \in {"Major"}, l \in {<<>>, <<"2025Q2">>},
        o \in {<<>>, <<[key |-> "OUT-1", issuetype |-> "Outcome"]>>,
               <<[key |-> "OUT-1", issuetype |-> "Feature"]>>}}

\* The state at the start of process_type on one issue: the context is
\* fresh and the issue is as the collector loaded it
InitProcessType ==
    /\ which = "process_type"
    /\ dry_run \in BOOLEAN
    /\ \E checks \in CheckLists : \E parent \in ParentsOfIssue :
       \E blocking \in {<<>>, <<"Critical">>} :
       \E footer \in {"", "footer"} :
          input = [checks |-> checks, parent |-> parent, blocks |-> blocking,
                   footer |-> footer]
    /\ \E labels \in {<<>>, <<"2025Q1">>, <<non_compliant_flag>>,
                      <<"2025Q1", "2025Q2">>} :
       \E fixVersions \in {<<>>, <<"OUT-1">>, <<"OUT-2">>, <<"v1">>} :
       \E versions \in {{"v1", "OUT-2"}, {"v1", "OUT-1", "OUT-2"}} :
          output = [labels |-> labels, fixVersions |-> fixVersions,
                    priority |-> "Major", versions |-> versions]
    /\ context = [updates |-> <<>>, comments |-> <<>>, non_compliant |-> FALSE]
    /\ writes = <<>>
    /\ runs = 0
    /\ raised = FALSE
    /\ NoRanking

\* The steps of process_type on the issue: its checks, then the flag, then
\* the comment
process_type_steps ==
    input.checks \o <<"set_non_compliant_flag", "add_comment">>

\* The step that process_type is at
process_type_at(step) ==
    /\ which = "process_type"
    /\ runs < Len(process_type_steps)
    /\ process_type_steps[runs + 1] = step

\* The effect of one step: res is [fields, context, writes]
process_type_does(res) ==
    /\ output' = res.fields
    /\ context' = res.context
    /\ writes' = writes \o res.writes
    /\ runs' = runs + 1
    /\ UNCHANGED <<input, dry_run, which, raised>>
    /\ UNCHANGED ranking_vars

step_set_fix_version ==
    /\ process_type_at("set_fix_version")
    /\ process_type_does(set_fix_version(input, output, context, dry_run))

step_check_priority ==
    /\ process_type_at("check_priority")
    /\ process_type_does(check_priority(input, output, context, dry_run))

step_check_quarter_label ==
    /\ process_type_at("check_quarter_label")
    /\ process_type_does(check_quarter_label(input, output, context, dry_run))

step_check_parent_link ==
    /\ process_type_at("check_parent_link")
    /\ process_type_does(check_parent_link(input, output, context, dry_run))

step_set_non_compliant_flag ==
    /\ process_type_at("set_non_compliant_flag")
    /\ process_type_does(set_non_compliant_flag(input, output, context, dry_run))

step_add_comment ==
    /\ process_type_at("add_comment")
    /\ process_type_does(add_comment(input, output, context, dry_run))

NextProcessType ==
    \/ step_set_fix_version
    \/ step_check_priority
    \/ step_check_quarter_label
    \/ step_check_parent_link
    \/ step_set_non_compliant_flag
    \/ step_add_comment

SpecProcessType == InitProcessType /\ [][NextProcessType]_vars

(* ======================= rules/team/status.py ========================= *)

StatusCategories == {"To Do", "In Progress", "Done"}

\* utils.jira.get_children(jira_client, issue): the issues whose parent is
\* the issue, in the order of the query
get_children(tree, k) ==
    SelectSeq([c \in 1..Len(tree) |-> c], LAMBDA c : tree[c].parent = k)

\* A variant of _get_updated_status in which one Done child closes the parent
sfc_get_updated_status_one_done(statusCategories) ==
    IF statusCategories = {"To Do"} THEN "To Do"
    ELSE IF "Done" \in statusCategories THEN "Done"
    ELSE "In Progress"

\* _get_updated_status(statusCategories)
sfc_get_updated_status(statusCategories) ==
    IF statusCategories = {"To Do"} THEN "To Do"
    ELSE IF statusCategories = {"Done"} THEN "Done"
    ELSE "In Progress"

\* The status that _update_status moves the issue to
sfc_target_status(new_status_category) ==
    IF new_status_category = "To Do" THEN "New"
    ELSE IF new_status_category = "In Progress" THEN "In Progress"
    ELSE "Closed"

\* _update_status(issue, new_status_category, context, dry_run):
\* [messages, writes].  The message of a dry run names the issue, the
\* message of a live run does not; a live run makes the transition when the
\* tracker offers one of that name.
sfc_update_status(k, new_status_category, transitions, dry) ==
    LET status == sfc_target_status(new_status_category)
    IN  [messages |-> IF dry THEN << <<"Updating Status of", k, status>> >>
                      ELSE << <<"Updating Status to", status>> >>,
         writes |-> IF ~dry /\ status \in transitions
                    THEN << <<"transition_issue", k, status>> >>
                    ELSE <<>>]

RECURSIVE sfc_set_status_from_children(_, _, _, _)
RECURSIVE sfc_get_children_status_categories(_, _, _, _, _, _)

\* The loop of _get_children_status_categories(issue, context, dry_run) from
\* the j-th child on: acc is [categories, messages, writes, updated], where
\* updated lists the issues that _update_status was called for
sfc_get_children_status_categories(tree, children, j, acc, transitions, dry) ==
    IF j > Len(children) THEN acc
    ELSE LET res == sfc_set_status_from_children(tree, children[j],
                                                 transitions, dry)
         IN  sfc_get_children_status_categories(tree, children, j + 1,
                 [categories |-> acc.categories \cup {res.status},
                  messages |-> acc.messages \o res.messages,
                  writes |-> acc.writes \o res.writes,
                  updated |-> acc.updated \o res.updated],
                 transitions, dry)

\* set_status_from_children(issue, context, dry_run):
\* [status, messages, writes, updated]
sfc_set_status_from_children(tree, k, transitions, dry) ==
    LET below == sfc_get_children_status_categories(tree, get_children(tree, k),
                     1, [categories |-> {}, messages |-> <<>>,
                         writes |-> <<>>, updated |-> <<>>],
                     transitions, dry)
        new_status_category == sfc_get_updated_status(below.categories)
        upd == sfc_update_status(k, new_status_category, transitions, dry)
    IN  IF below.categories = {}
        THEN [status |-> tree[k].category, messages |-> below.messages,
              writes |-> below.writes, updated |-> below.updated]
        ELSE IF new_status_category # tree[k].category
        THEN [status |-> new_status_category,
              messages |-> below.messages \o upd.messages,
              writes |-> below.writes \o upd.writes,
              updated |-> Append(below.updated, k)]
        ELSE [status |-> new_status_category, messages |-> below.messages,
              writes |-> below.writes, updated |-> below.updated]

(* ====================== set_status_from_children ====================== *)

\* The hierarchies of n issues: issue 1 is the one the rule is called on and
\* every other issue has its parent among the issues before it
Hierarchies(n) ==
    {t \in [1..n -> [parent : 0..(n - 1), category : StatusCategories]] :
        /\ t[1].parent = 0
        /\ \A k \in 2..n : t[k].parent \in 1..(k - 1)}

\* The state before set_status_from_children: an issue with the issues
\* below it, and the names of the transitions that the tracker offers
InitStatus ==
    /\ which = "status"
    /\ dry_run \in BOOLEAN
    /\ \E n \in 1..MaxTree : \E t \in Hierarchies(n) :
       \E transitions \in {{"New", "In Progress", "Closed"}, {"In Progress"}} :
          input = [tree |-> t, transitions |-> transitions]
    /\ context = EmptyContext
    /\ writes = <<>>
    /\ output = <<>>
    /\ runs = 0
    /\ raised = FALSE
    /\ NoRanking

\* set_status_from_children(issue, context, dry_run) on issue 1.  The output
\* is the category returned and the issues that were updated, in order.
set_status_from_children ==
    /\ which = "status"
    /\ runs = 0
    /\ LET res == sfc_set_status_from_children(input.tree, 1,
                                               input.transitions, dry_run)
       IN  /\ output' = [status |-> res.status, updated |-> res.updated]
           /\ context' = [context EXCEPT !.updates = @ \o res.messages]
           /\ writes' = writes \o res.writes
    /\ runs' = 1
    /\ UNCHANGED <<input, dry_run, which, raised>>
    /\ UNCHANGED ranking_vars

NextStatus == set_status_from_children

SpecStatus == InitStatus /\ [][NextStatus]_vars

(* ========================== utils/retry.py ============================ *)

\* The bound on the seconds that one invocation of the wrapped function takes
MaxCallTime == 2

\* retry(timeout=300, interval=15, jitter=0.2, wait_on=Exception): the
\* defaults, in seconds; the jitter in tenths
retry_timeout == 300
retry_interval == 15
retry_jitter_tenths == 2

\* time.sleep(interval * skew) with skew = random.random() * jitter
\* + (1 - jitter / 2): the whole seconds s with
\* interval * (1 - jitter / 2) <= s < interval * (1 + jitter / 2)
retry_sleeps(interval) ==
    {s \in 0..(2 * interval) :
        /\ 20 * s >= interval * (20 - retry_jitter_tenths)
        /\ 20 * s < interval * (20 + retry_jitter_tenths)}

\* A slip in the test of the except clause: `if True`, the first exception is
\* raised again after one sleep
retry_timed_out_at_once(now, start, timeout) == TRUE

\* "if (time.time() - start) >= timeout"
retry_timed_out(now, start, timeout) == now - start >= timeout

\* The timeouts that a decorated function is given
RetryTimeouts == {0, 40, retry_timeout}

\* inner(*args, **kwargs) at "start = time.time()": the clock is read as 0;
\* caught is the invocation whose exception the except clause holds,
\* surfaced the kind of the exception that left inner
InitRetry ==
    /\ which = "retry"
    /\ dry_run = FALSE
    /\ \E timeout \in RetryTimeouts :
          input = [timeout |-> timeout, interval |-> retry_interval]
    /\ context = [pc |-> "call", start |-> 0, now |-> 0, slept |-> 0,
                  caught |-> 0, surfaced |-> ""]
    /\ writes = <<>>
    /\ output = <<>>
    /\ runs = 0
    /\ raised = FALSE
    /\ NoRanking

\* "return function(*args, **kwargs)": the function returns, and inner
\* returns its result (the result of invocation n is n)
function_returns ==
    /\ which = "retry"
    /\ context.pc = "call"
    /\ \E d \in 0..MaxCallTime :
          context' = [context EXCEPT !.pc = "returned", !.now = @ + d]
    /\ output' = <<runs + 1>>
    /\ runs' = runs + 1
    /\ UNCHANGED <<input, writes, dry_run, which, raised>>
    /\ UNCHANGED ranking_vars

\* The function raises an exception of type wait_on: "except wait_on as e"
function_raises_wait_on ==
    /\ which = "retry"
    /\ context.pc = "call"
    /\ \E d \in 0..MaxCallTime :
          context' = [context EXCEPT !.pc = "except", !.now = @ + d,
                                     !.caught = runs + 1]
    /\ runs' = runs + 1
    /\ UNCHANGED <<input, output, writes, dry_run, which, raised>>
    /\ UNCHANGED ranking_vars

\* The function raises an exception that is not of type wait_on: no clause
\* catches it and it leaves inner
function_raises_other ==
    /\ which = "retry"
    /\ context.pc = "call"
    /\ \E d \in 0..MaxCallTime :
          context' = [context EXCEPT !.pc = "raised", !.now = @ + d,
                                     !.surfaced = "other"]
    /\ raised' = TRUE
    /\ runs' = runs + 1
    /\ UNCHANGED <<input, output, writes, dry_run, which>>
    /\ UNCHANGED ranking_vars

\* The except clause: time.sleep(interval * skew), then the test of the
\* timeout: the bare raise, or the next turn of "while True"
retry_except ==
    /\ which = "retry"
    /\ context.pc = "except"
    /\ \E s \in retry_sleeps(input.interval) :
          LET now == context.now + s
          IN  IF retry_timed_out(now, context.start, input.timeout)
              THEN /\ context' = [context EXCEPT !.pc = "raised", !.now = now,
                                                 !.slept = @ + 1,
                                                 !.surfaced = "wait_on"]
                   /\ raised' = TRUE
              ELSE /\ context' = [context EXCEPT !.pc = "call", !.now = now,
                                                 !.slept = @ + 1]
                   /\ raised' = raised
    /\ UNCHANGED <<input, output, writes, dry_run, which, runs>>
    /\ UNCHANGED ranking_vars

NextRetry ==
    \/ function_returns
    \/ function_raises_wait_on
    \/ function_raises_other
    \/ retry_except

SpecRetry == InitRetry /\ [][NextRetry]_vars

\* The loop of inner is sequential code: an invocation of the function ends
\* and time.sleep returns, so a step that can be taken is taken
SpecRetryLive == SpecRetry /\ WF_vars(NextRetry)

(* ============================ the whole model ========================= *)

Init ==
    \/ InitRank
    \/ InitRankLive
    \/ InitTS
    \/ InitSetRank
    \/ InitSetRankAny
    \/ InitTSBlocks
    \/ InitFixVersion
    \/ InitPriority
    \/ InitByComponent
    \/ InitTargetEnd
    \/ InitProcessType
    \/ InitStatus
    \/ InitRetry

Next ==
    \/ check_rank
    \/ adopt_ranking
    \/ check_timesensitive_rank
    \/ set_rank
    \/ set_rank_any
    \/ Blocks_manual_override
    \/ check_fixversion_rank
    \/ check_priority_from_rank
    \/ check_priority_from_rank_by_component
    \/ check_target_end_date
    \/ NextProcessType
    \/ set_status_from_children
    \/ NextRetry

Spec == Init /\ [][Next]_vars

(* ============================= properties ============================= *)

\* The issue is due before the deadline of today + 90 days
Urgent(i) == issue[i].duedate # NoDate /\ issue[i].duedate < critical_deadline

\* The position of key k in the ranking r (0 when absent)
Pos(r, k) == IndexOf(r, k)

TSRan == which = "timesensitive" /\ runs > 0

\* C1: the new ranking that check_timesensitive_rank computes (Blocks(issues),
\* sort(), get_issues()) is a permutation of the duplicate-free list it was
\* given: every issue of the list is in it exactly once, and nothing else is.
C1_Permutation ==
    TSRan =>
        /\ Len(new_ranking) = Len(issues)
        /\ \A k \in Range(issues) :
              Cardinality({x \in 1..Len(new_ranking) : new_ranking[x] = k}) = 1
        /\ Range(new_ranking) \subseteq Range(issues)

\* C1 witness: a run on a full list that filled the time-sensitive block, a
\* block of a parent and the block of the parentless issues, and that changed
\* the order
C1_Witness ==
    /\ TSRan
    /\ Len(issues) = MaxIssues
    /\ new_ranking # issues
    /\ \E i, j, k \in Range(issues) :
          /\ Urgent(i)
          /\ ~Urgent(j) /\ issue[j].parent # None
          /\ ~Urgent(k) /\ issue[k].parent = None

\* C4: a run of check_timesensitive_rank on the ranking that the run before
\* it produced computes that same ranking again and makes no rank call.
C4_Idempotent ==
    (which = "timesensitive" /\ runs >= 2) =>
        new_ranking = old_ranking /\ calls = <<>>

\* C8: in the new ranking of check_timesensitive_rank every issue due before
\* the deadline precedes every issue that has no due date or a later one, and
\* the issues due before the deadline are in ascending order of due date,
\* those of equal due date in the order of the list given to the rule.
C8_UrgentFirst ==
    TSRan =>
        \A i, j \in Range(issues) :
            /\ (Urgent(i) /\ ~Urgent(j)) => Pos(new_ranking, i) < Pos(new_ranking, j)
            /\ (Urgent(i) /\ Urgent(j) /\ issue[i].duedate < issue[j].duedate)
                   => Pos(new_ranking, i) < Pos(new_ranking, j)
            /\ (Urgent(i) /\ Urgent(j) /\ issue[i].duedate = issue[j].duedate
                  /\ Pos(issues, i) < Pos(issues, j))
                   => Pos(new_ranking, i) < Pos(new_ranking, j)

\* C8 witness: the list starts with an issue due on the deadline itself,
\* followed by two urgent issues of which the later one is due first
C8_Witness ==
    /\ TSRan
    /\ Len(issues) = 3
    /\ issue[issues[1]].duedate = critical_deadline
    /\ Urgent(issues[2]) /\ Urgent(issues[3])
    /\ issue[issues[3]].duedate < issue[issues[2]].duedate
    /\ new_ranking = <<issues[3], issues[2], issues[1]>>

RankRan == which = "rank" /\ runs > 0

\* The parents that get_issues lists in a ranking of the given issues: those
\* of the project of the issues
ListedParents(iss) ==
    {p \in {issue[i].parent : i \in Range(iss)} \ {None} :
        parents[p].project = TeamProject}

\* C2 as stated: the flattened ranking of rules.team.rank, before and after
\* sort(), holds the issues of the input list and nothing else, each once.
C2_OnlyInputIssues ==
    RankRan =>
        /\ IsPermutation(old_ranking, issues)
        /\ IsPermutation(new_ranking, issues)

\* The ranking r holds every issue of the list once and, besides them, only
\* the parents of the issues' own project, each once and directly before an
\* issue of which it is the parent
RankingOfIssuesAndOwnParents(r) ==
    /\ IsPermutation(query_issues(r), issues)
    /\ {-r[x] : x \in {y \in 1..Len(r) : r[y] < 0}} = ListedParents(issues)
    /\ \A x \in 1..Len(r) :
          r[x] < 0 =>
              /\ x < Len(r)
              /\ r[x + 1] > 0
              /\ issue[r[x + 1]].parent = -r[x]
              /\ \A y \in 1..Len(r) : r[y] = r[x] => y = x

\* C2 amended: before and after sort() the flattened ranking holds every
\* issue of the input exactly once; its only other entries are parents: the
\* parent of a block is listed once, directly before the block's issues,
\* exactly when it is of the same project as the block's first issue.
C2_InputIssuesAndOwnParents ==
    RankRan =>
        /\ RankingOfIssuesAndOwnParents(old_ranking)
        /\ RankingOfIssuesAndOwnParents(new_ranking)

\* C2 witness: a run whose ranking lists a parent of the team's project and
\* leaves out a parent of another project
C2_Witness ==
    /\ RankRan
    /\ \E i, j \in Range(issues) :
          /\ issue[i].parent # None /\ issue[j].parent # None
          /\ parents[issue[i].parent].project = TeamProject
          /\ parents[issue[j].parent].project = OtherProject
          /\ -issue[i].parent \in Range(new_ranking)
          /\ -issue[j].parent \notin Range(new_ranking)

\* C3: with favor_status=False, sort() on the sorted blocks leaves
\* get_issues() as it is, and a run on the issues arranged in the new order
\* computes that order again and reports no move.
C3_Idempotent ==
    (RankRan /\ ~favor_status) =>
        /\ rank_get_issues(rank_sort(blocks, parents, FALSE), issue, parents)
              = new_ranking
        /\ runs >= 2 =>
              /\ new_ranking = old_ranking
              /\ would = <<>>
              /\ calls = <<>>

\* C3 witness: a second run, on an order that the first run had changed
C3_Witness ==
    /\ RankRan
    /\ ~favor_status
    /\ runs = 2
    /\ issues # Identity(Len(issues))
    /\ \E i, j \in Range(issues) :
          /\ i # j
          /\ issue[i].parent # None /\ issue[j].parent # None
          /\ issue[i].parent # issue[j].parent
          /\ parents[issue[i].parent].rank = parents[issue[j].parent].rank
          /\ parents[issue[i].parent].project = parents[issue[j].parent].project

\* The parent tables that differ from `parents` at most in the ranks of the
\* parents of project P; the sort compares the ranks of P's parents with one
\* another only, so as many rank values as P has parents give every order,
\* ties included
RerankedIn(P) ==
    LET of_P == {p \in DOMAIN parents : parents[p].project = P}
    IN  {[p \in DOMAIN parents |->
             IF p \in of_P THEN [parents[p] EXCEPT !.rank = r[p]]
             ELSE parents[p]] :
         r \in [of_P -> 0..(Cardinality(of_P) - 1)]}

\* The block is not of project P: its parent is of another project or it
\* has no parent
NotOf(b, P) == b.parent_issue = None \/ parents[b.parent_issue].project # P

\* C5: when only the ranks of the parents of project P differ, sort() (with
\* either favor_status) leaves the blocks that are not of P in the same
\* relative order, and with favor_status=False at the same indexes.
C5_ProjectSwapIsolation ==
    RankRan =>
        \A P \in Projects : \A g \in RerankedIn(P) :
            LET other == rank_sort(rank_Blocks(issues, issue), g, favor_status)
            IN  /\ SelectSeq(other, LAMBDA b : NotOf(b, P))
                      = SelectSeq(blocks, LAMBDA b : NotOf(b, P))
                /\ ~favor_status =>
                      \A x \in 1..Len(blocks) :
                          NotOf(blocks[x], P) => other[x] = blocks[x]

\* C5 witness: other ranks for the parents of P give another order of the
\* blocks of P, around a block of another project and a parentless block
C5_Witness ==
    /\ RankRan
    /\ \E P \in Projects : \E g \in RerankedIn(P) :
          /\ rank_sort(rank_Blocks(issues, issue), g, favor_status) # blocks
          /\ \E x \in 1..Len(blocks) : NotOf(blocks[x], P)

\* The index of block b among the blocks as Blocks(issues) built them
BuiltAt(b) == IndexOf(rank_Blocks(issues, issue), b)

\* C6: after sort() with favor_status=False the blocks of each parent
\* project are in ascending order of their parent's rank, those of equal
\* rank in their original order, and each parentless block is at its
\* original index; the fixture with parent3 ranked 0 gives child0, parent3,
\* child3, parent1, child1, parent2, child2, child4.
C6_SortedWithinProject ==
    (RankRan /\ ~favor_status) =>
        /\ \A x, y \in 1..Len(blocks) :
              (/\ x < y
               /\ blocks[x].parent_issue # None
               /\ blocks[y].parent_issue # None
               /\ parents[blocks[x].parent_issue].project
                      = parents[blocks[y].parent_issue].project)
              => LET rx == parents[blocks[x].parent_issue].rank
                     ry == parents[blocks[y].parent_issue].rank
                 IN  /\ rx <= ry
                     /\ rx = ry => BuiltAt(blocks[x]) < BuiltAt(blocks[y])
        /\ \A x \in 1..Len(blocks) :
              rank_Blocks(issues, issue)[x].parent_issue = None
                  => blocks[x] = rank_Blocks(issues, issue)[x]
        /\ Len(blocks) = Len(rank_Blocks(issues, issue))
        /\ (issue = FixtureIssue /\ parents = FixtureParents(0) /\ runs = 1)
              => new_ranking = <<1, -3, 4, -1, 2, -2, 3, 5>>

\* C6 witness: the run of test_rank_single_move on the fixture
C6_Witness ==
    /\ RankRan
    /\ ~favor_status
    /\ issue = FixtureIssue
    /\ parents = FixtureParents(0)
    /\ runs = 1
    /\ old_ranking = <<1, -1, 2, -2, 3, -3, 4, 5>>
    /\ new_ranking # old_ranking

\* C7: after a live check_rank the rank calls, applied in the order they
\* were made to the tracker's order (the order of the input issues), leave
\* the ranked issues in the tracker in the order they have in new_ranking:
\* the issues of a parent together and in their original relative order,
\* whatever the order of the input, also when the issues of a parent are not
\* adjacent in it.
C7_TrackerFollowsNewRanking ==
    (RankRan /\ ~dry_run) =>
        query_issues(tracker) = query_issues(new_ranking)

SetRankRan == which \in {"rank._set_rank", "timesensitive._set_rank"} /\ runs = 1

\* The moves of a run of _set_rank: rank calls when live, logged moves when
\* dry
Moves == IF dry_run THEN would ELSE calls

\* The first index (from 1) at which the rankings differ; one past the end
\* when they are equal
FirstDifference(old, new) ==
    IF old = new THEN Len(new) + 1
    ELSE CHOOSE d \in 1..Len(new) :
            /\ old[d] # new[d]
            /\ \A e \in 1..(d - 1) : old[e] = new[e]

\* C9: _set_rank moves new_ranking[i] to directly after new_ranking[i-1]
\* exactly for the indexes i, not the first, at or after the first index
\* where new_ranking differs from old_ranking, in increasing order of i,
\* whether or not the issue is already in place; when the rankings are equal
\* it moves nothing.
C9_MovesFromFirstDifference ==
    SetRankRan =>
        LET from == Max({FirstDifference(old_ranking, new_ranking), 2})
            n == Len(new_ranking)
        IN  /\ Len(Moves) = (IF from > n THEN 0 ELSE n - from + 1)
            /\ \A k \in 1..Len(Moves) :
                  Moves[k] = <<new_ranking[from + k - 1],
                               new_ranking[from + k - 2]>>
            /\ old_ranking = new_ranking => Moves = <<>>
            /\ dry_run => calls = <<>>
            /\ ~dry_run => would = <<>>
            /\ ~raised

\* C9 witness: a run that moves an issue which is already at its index,
\* after the first difference
C9_Witness ==
    /\ SetRankRan
    /\ \E x \in 2..Len(new_ranking) :
          /\ new_ranking[x] = old_ranking[x]
          /\ <<new_ranking[x], new_ranking[x - 1]>> \in Range(Moves)

\* The moves "place X directly after Y" among the issues of a ranking
AllMoves(r) == {<<x, y>> : x \in Range(r), y \in Range(r)} \ {<<x, x>> : x \in Range(r)}

\* The sequences of exactly m moves
RECURSIVE MoveSeqs(_, _)
MoveSeqs(r, m) ==
    IF m = 0 THEN {<<>>}
    ELSE {Append(ms, mv) : ms \in MoveSeqs(r, m - 1), mv \in AllMoves(r)}

\* C10 as stated: the moves of _set_rank are minimal: no shorter sequence of
\* moves "place X directly after Y" turns old_ranking into new_ranking.
C10_MovesMinimal ==
    SetRankRan =>
        \A m \in 0..(Len(Moves) - 1) : \A ms \in MoveSeqs(old_ranking, m) :
            tracker_apply(old_ranking, ms) # new_ranking

\* C10 amended: the moves of _set_rank, applied in order to old_ranking, give
\* new_ranking; there are none exactly when the rankings are equal and never
\* more than one per issue after the first; they need not be the fewest.
C10_MovesRealizeNewRanking ==
    SetRankRan =>
        /\ tracker_apply(old_ranking, Moves) = new_ranking
        /\ (Moves = <<>>) <=> (old_ranking = new_ranking)
        /\ Len(Moves) <= Max({Len(new_ranking) - 1, 0})
        /\ ~dry_run => tracker = new_ranking

\* C10 witness: a run that makes two moves where one would do
C10_Witness ==
    /\ SetRankRan
    /\ Len(Moves) = 2
    /\ \E mv \in AllMoves(old_ranking) :
          tracker_rank(old_ranking, mv[1], mv[2]) = new_ranking

SetRankAnyRan ==
    which \in {"rank._set_rank/any", "fixversion._set_rank/any"} /\ runs = 1

\* C11: when old_ranking and new_ranking are not permutations of each other
\* (other lengths or other members) _set_rank fails before it moves
\* anything: it raises, and neither makes a rank call nor reports a move.
C11_FailsFast ==
    (SetRankAnyRan /\ ~IsPermutation(old_ranking, new_ranking)) =>
        /\ raised
        /\ calls = <<>>
        /\ would = <<>>

PriorityRan == which = "priority_from_rank" /\ runs = 1

\* The tier of the position i (from 0) among n issues
Tier(i, n) ==
    IF 16 * i <= n THEN "Critical"
    ELSE IF 8 * i <= n THEN "Major"
    ELSE IF 4 * i <= n THEN "Normal"
    ELSE "Minor"

\* C12: priority_from_rank gives the issue at position i (from 0) of n issues
\* Critical iff 16*i <= n, otherwise Major iff 8*i <= n, otherwise Normal iff
\* 4*i <= n, otherwise Minor; a position on a threshold gets the stricter
\* tier, position 0 is Critical, and of 10 issues the positions 0, 1, 2 and
\* 3..9 get Critical, Major, Normal and Minor.
C12_TierByPosition ==
    PriorityRan =>
        LET n == Len(input.issues)
        IN  /\ \A i \in 0..(n - 1) : output[input.issues[i + 1]] = Tier(i, n)
            /\ n > 0 => output[input.issues[1]] = "Critical"
            /\ n = 10 =>
                  output = <<"Critical", "Major", "Normal", "Minor", "Minor",
                             "Minor", "Minor", "Minor", "Minor", "Minor">>

\* C12 witness: a run on 16 issues, where the positions 1, 2 and 4 are
\* exactly on the thresholds
C12_Witness ==
    /\ PriorityRan
    /\ Len(input.issues) = 16
    /\ output[2] = "Critical" /\ output[3] = "Major" /\ output[4] = "Normal"
    /\ output[5] = "Normal" /\ output[6] = "Minor"

ByComponentRan == which = "priority_from_rank_by_component" /\ runs = 1

\* The names of the components of an issue, and the issues of a component in
\* the order of the input
ComponentsOf(k) == Range(input.components[k])
IssuesOf(c) == SelectSeq(input.issues, LAMBDA k : c \in ComponentsOf(k))

\* The tier of the ratio i / n
RatioTier(i, n) ==
    IF 16 * i <= n THEN "Critical"
    ELSE IF 8 * i <= n THEN "Major"
    ELSE IF 4 * i <= n THEN "Normal"
    ELSE "Minor"

\* How strict a tier is: the lower the stricter
Strictness(t) ==
    CASE t = "Critical" -> 1 [] t = "Major" -> 2 [] t = "Normal" -> 3
      [] t = "Minor" -> 4 [] OTHER -> 5

\* C13: priority_from_rank_by_component gives an issue the tier of the
\* smallest ratio (index of the issue in the component's issues) / (number of
\* the component's issues) over the components of the issue, which is at
\* least as strict as the tier from any one of its components; an issue with
\* no component gets Undefined.
C13_BestComponentTier ==
    ByComponentRan =>
        \A k \in Range(input.issues) :
            /\ ComponentsOf(k) = {} => output[k] = "Undefined"
            /\ ComponentsOf(k) # {} =>
                  /\ \E c \in ComponentsOf(k) :
                        /\ output[k] = RatioTier(IndexOf(IssuesOf(c), k) - 1,
                                                 Len(IssuesOf(c)))
                        /\ \A d \in ComponentsOf(k) :
                              (IndexOf(IssuesOf(c), k) - 1) * Len(IssuesOf(d))
                                  <= (IndexOf(IssuesOf(d), k) - 1) * Len(IssuesOf(c))
                  /\ \A d \in ComponentsOf(k) :
                        Strictness(output[k])
                            <= Strictness(RatioTier(IndexOf(IssuesOf(d), k) - 1,
                                                    Len(IssuesOf(d))))

\* C13 witness: an issue of two components that is Normal by one and Minor
\* by the other, and an issue with no component
C13_Witness ==
    /\ ByComponentRan
    /\ \E k \in Range(input.issues) :
          /\ ComponentsOf(k) = {"A", "B"}
          /\ output[k] = "Normal"
          /\ RatioTier(IndexOf(IssuesOf("A"), k) - 1, Len(IssuesOf("A"))) = "Minor"
    /\ \E k \in Range(input.issues) : output[k] = "Undefined"

\* C14: for the same old_ranking and new_ranking, the (issue, previous issue)
\* pairs that rules.team.rank._set_rank reports with dry_run=True are, in
\* the same order, the jira_client.rank(issue, prev_issue) calls it makes
\* with dry_run=False.
C14_DryRunReportsTheLiveMoves ==
    (SetRankAnyRan /\ which = "rank._set_rank/any") =>
        /\ dry_run =>
              /\ would = rank_set_rank(old_ranking, new_ranking, FALSE).calls
              /\ raised = rank_set_rank(old_ranking, new_ranking, FALSE).raised
              /\ calls = <<>>
        /\ ~dry_run =>
              /\ calls = rank_set_rank(old_ranking, new_ranking, TRUE).would
              /\ raised = rank_set_rank(old_ranking, new_ranking, TRUE).raised
              /\ would = <<>>

\* C14 witness: a dry run that reported two moves
C14_Witness ==
    /\ SetRankAnyRan
    /\ which = "rank._set_rank/any"
    /\ dry_run
    /\ Len(would) = 2
    /\ IsPermutation(old_ranking, new_ranking)

\* C15: an issue that the manual_override predicate given to
\* timesensitive_rank.Blocks matches is put in the inert block, blocks[1] of
\* the code, and not in the due-date block, blocks[0], also when its due date
\* is before the deadline.  (Sequences count from 1: blocks[1] of the code is
\* blocks[2] here.)
C15_OverrideGoesToInertBlock ==
    (which = "timesensitive.Blocks" /\ runs = 1
        /\ "manual_override" \in input.keywords) =>
        /\ ~raised
        /\ \A k \in input.matched :
              /\ Len(blocks) >= 2
              /\ k \in Range(blocks[2].issues)
              /\ k \notin Range(blocks[1].issues)

\* The issues of r that satisfy keep, in the order of r
Kept(r, keep(_)) == SelectSeq(r, keep)

\* C16: the members of a block that keeps the order of arrival (rank.Block,
\* timesensitive_rank.Block and the Block of fixversion_rank that is not the
\* fix-version block) are emitted by get_issues(), before and after sort(),
\* in the relative order they have in the input list.
C16_ArrivalOrderKept ==
    /\ RankRan =>
          \A b \in Range(blocks) :
              /\ Kept(old_ranking, LAMBDA k : k \in Range(b.issues))
                    = Kept(issues, LAMBDA k : k \in Range(b.issues))
              /\ Kept(new_ranking, LAMBDA k : k \in Range(b.issues))
                    = Kept(issues, LAMBDA k : k \in Range(b.issues))
    /\ TSRan =>
          \A b \in Range(blocks) :
              ~b.ts =>
                  /\ Kept(ts_get_issues(ts_Blocks(issues, issue), issue),
                          LAMBDA k : k \in Range(b.issues))
                        = Kept(issues, LAMBDA k : k \in Range(b.issues))
                  /\ Kept(new_ranking, LAMBDA k : k \in Range(b.issues))
                        = Kept(issues, LAMBDA k : k \in Range(b.issues))
    /\ (which = "fixversion" /\ runs > 0) =>
          \A b \in Range(blocks) :
              ~b.fv =>
                  /\ ~fv_get_issues(fv_Blocks(issues, issue), issue).raised
                  /\ ~raised
                  /\ Kept(fv_get_issues(fv_Blocks(issues, issue), issue).issues,
                          LAMBDA k : k \in Range(b.issues))
                        = Kept(issues, LAMBDA k : k \in Range(b.issues))
                  /\ Kept(new_ranking, LAMBDA k : k \in Range(b.issues))
                        = Kept(issues, LAMBDA k : k \in Range(b.issues))

TargetEndRan == which = "target_end" /\ runs = 1

\* C17: when every child of the issue is in the category Done and the issue
\* has a target end date, check_target_end_date does not raise and records
\* exactly one update, which sets the target end date to None; listify of
\* the empty list is the empty string.
C17_AllDoneClearsTheDate ==
    (/\ TargetEndRan
     /\ input.children # <<>>
     /\ \A x \in 1..Len(input.children) : input.children[x].category = "Done"
     /\ input.end_date # NoDate) =>
        /\ ~raised
        /\ Len(context.updates) = 1
        /\ context.updates[1].date = NoDate
        /\ te_listify(<<>>) = [raised |-> FALSE, text |-> <<>>]

\* The children that count for the parent's date by C18: those that are not
\* Done and those that are Release Pending
Contributing ==
    {x \in 1..Len(input.children) :
        \/ input.children[x].category # "Done"
        \/ input.children[x].status = "Release Pending"}

\* C18: in check_target_end_date a child in the status Release Pending gives
\* its target end date to the parent although its category is Done, and the
\* other Done children do not: the date propagated is the latest target end
\* date of the children that are not Done or are Release Pending.
C18_ReleasePendingContributes ==
    (/\ TargetEndRan
     /\ input.end_date = NoDate
     /\ Contributing # {}
     /\ \A x \in Contributing : input.children[x].target_end # NoDate) =>
        /\ ~raised
        /\ Len(context.updates) = 1
        /\ \E x \in Contributing :
              /\ context.updates[1].date = input.children[x].target_end
              /\ context.updates[1].source = x
              /\ \A y \in Contributing :
                    input.children[y].target_end <= input.children[x].target_end

\* C19: in a dry run no rule and no step of process_type writes on the
\* tracker: no update of an issue, no rank call, no comment, no transition
\* and no creation of a version is issued.
C19_DryRunWritesNothing ==
    dry_run => (writes = <<>> /\ calls = <<>>)

StatusRan == which = "status" /\ runs = 1

\* The issues below issue k in the hierarchy
RECURSIVE Descendants(_, _)
Descendants(tree, k) ==
    LET direct == {c \in 1..Len(tree) : tree[c].parent = k}
    IN  direct \cup UNION {Descendants(tree, c) : c \in direct}

\* The categories of the issues below k that have no children themselves
LeafCategories(tree, k) ==
    {tree[d].category :
        d \in {e \in Descendants(tree, k) : Descendants(tree, e) = {}}}

\* The category that C20 gives an issue with children
CategoryFromLeaves(tree, k) ==
    IF \A c \in LeafCategories(tree, k) : c = "To Do" THEN "To Do"
    ELSE IF \A c \in LeafCategories(tree, k) : c = "Done" THEN "Done"
    ELSE "In Progress"

\* C20: set_status_from_children returns, for an issue with children, To Do
\* iff all its leaf descendants are To Do, Done iff they are all Done, and
\* In Progress otherwise; an issue without children returns its own category
\* and is not updated; an issue is updated iff the category computed for it
\* differs from its own, and after all updates of the issues below it.
C20_StatusFromLeaves ==
    StatusRan =>
        LET tree == input.tree
            updated == output.updated
            returned(k) == sfc_set_status_from_children(
                               tree, k, input.transitions, dry_run).status
        IN  /\ output.status = returned(1)
            /\ \A k \in 1..Len(tree) :
                  IF Descendants(tree, k) = {}
                  THEN /\ returned(k) = tree[k].category
                       /\ ~InList(k, updated)
                  ELSE /\ returned(k) = CategoryFromLeaves(tree, k)
                       /\ InList(k, updated)
                             <=> CategoryFromLeaves(tree, k) # tree[k].category
            /\ \A i, j \in 1..Len(updated) :
                  /\ (i # j => updated[i] # updated[j])
                  /\ (updated[j] \in Descendants(tree, updated[i]) => j < i)
            /\ Len(context.updates) = Len(updated)
            /\ dry_run => \A i \in 1..Len(updated) :
                             context.updates[i][2] = updated[i]

\* An issue with children and grandchildren whose leaves are in different
\* categories, updated after an issue below it
C20_Witness ==
    /\ StatusRan
    /\ output.status = "In Progress"
    /\ input.tree[1].category # "In Progress"
    /\ \E k \in Descendants(input.tree, 1) :
          /\ Descendants(input.tree, k) # {}
          /\ InList(k, output.updated)
    /\ Len(output.updated) >= 2
    /\ Cardinality(LeafCategories(input.tree, 1)) >= 2

\* The project that the slot of block b belongs to: the project of its
\* parent, the parentless blocks counting as one project of their own
SlotProject(b) ==
    IF b.parent_issue = None THEN "None" ELSE parents[b.parent_issue].project

\* The blocks `after` are the blocks `before` in another order, each index
\* held by a block of the project that held it before
SlotsKept(before, after) ==
    /\ IsPermutation(after, before)
    /\ \A x \in 1..Len(before) : SlotProject(after[x]) = SlotProject(before[x])

\* C21: _sort_by_project_rank of rules.team.rank and of
\* rules.team.timesensitive_rank returns the blocks it was given in another
\* order in which every index holds a block of the same parent project as
\* before the step, the parentless blocks counting as a project of their own.
C21_SlotsKeepTheirProject ==
    /\ RankRan =>
          LET before == rank_Blocks(issues, issue)
          IN  SlotsKept(before, rank_sort_by_project_rank(before, parents))
    /\ TSRan =>
          LET before == ts_Blocks(issues, issue)
          IN  SlotsKept(before, ts_sort_by_project_rank(before, parents))

\* C21 witness: a run of check_timesensitive_rank in which the step changed
\* the order of the blocks of one project around a block of another project
C21_Witness ==
    /\ TSRan
    /\ LET before == ts_Blocks(issues, issue)
           after == ts_sort_by_project_rank(before, parents)
       IN  /\ after # before
           /\ \E x, y \in 1..Len(before) :
                 /\ before[x].parent_issue # None
                 /\ before[y].parent_issue # None
                 /\ SlotProject(before[x]) # SlotProject(before[y])

\* The list s cut into its maximal runs of adjacent issues that have the
\* same parent, each parentless issue a run of its own
RECURSIVE RunsOf(_)
RunsOf(s) ==
    IF s = <<>> THEN <<>>
    ELSE LET rest == RunsOf(Tail(s))
         IN  IF /\ rest # <<>>
                /\ issue[Head(s)].parent # None
                /\ issue[Head(rest)[1]].parent = issue[Head(s)].parent
             THEN << <<Head(s)>> \o Head(rest) >> \o Tail(rest)
             ELSE << <<Head(s)>> >> \o rest

\* C22 as stated: the blocks that Blocks(issues) of rules.team.rank builds
\* are the maximal runs of adjacent issues of the same parent, in order, each
\* parentless issue a block of its own.
C22_BlocksAreContiguousRuns ==
    RankRan =>
        LET built == rank_Blocks(issues, issue)
        IN  [x \in 1..Len(built) |-> built[x].issues] = RunsOf(issues)

\* C22 amended: Blocks(issues) of rules.team.rank builds one block per
\* parent, which holds all the issues of that parent in the order of the
\* list, adjacent in it or not, and one block per parentless issue; the
\* blocks are in the order in which the list first reaches them, and every
\* issue of the list is in exactly one block.
C22_OneBlockPerParent ==
    RankRan =>
        LET built == rank_Blocks(issues, issue)
            first(x) == Pos(issues, built[x].issues[1])
        IN  /\ IsPermutation(Flatten([x \in 1..Len(built) |-> built[x].issues]),
                             issues)
            /\ \A x \in 1..Len(built) :
                  LET b == built[x]
                  IN  /\ b.issues # <<>>
                      /\ \A k \in 1..Len(b.issues) :
                            issue[b.issues[k]].parent = b.parent_issue
                      /\ \A k \in 1..(Len(b.issues) - 1) :
                            Pos(issues, b.issues[k]) < Pos(issues, b.issues[k + 1])
                      /\ b.parent_issue = None => Len(b.issues) = 1
            /\ \A x, y \in 1..Len(built) :
                  /\ (x # y /\ built[x].parent_issue # None)
                        => built[x].parent_issue # built[y].parent_issue
                  /\ x < y => first(x) < first(y)

\* C22 witness: two issues of one parent with an issue of another parent
\* between them, all three in blocks, the two in the same block
C22_Witness ==
    /\ RankRan
    /\ Len(issues) = 3
    /\ issue[issues[1]].parent # None
    /\ issue[issues[1]].parent = issue[issues[3]].parent
    /\ issue[issues[2]].parent # issue[issues[1]].parent
    /\ \E x \in 1..Len(rank_Blocks(issues, issue)) :
          rank_Blocks(issues, issue)[x].issues = <<issues[1], issues[3]>>

\* The issue directly before issue k in the ranking r (None for the first)
Before(r, k) == IF Pos(r, k) <= 1 THEN None ELSE r[Pos(r, k) - 1]

\* C23: for two rankings of the same issues, the moves of _set_rank applied
\* to old_ranking in the order they were issued, each taking the issue out
\* and putting it back directly after prev_issue, give new_ranking; each move
\* leaves its issue directly after prev_issue, and this is so also when the
\* rankings differ at the first index, where every issue but the first of
\* new_ranking is moved.
C23_MovesInOrderGiveNewRanking ==
    SetRankRan =>
        /\ tracker_apply(old_ranking, Moves) = new_ranking
        /\ \A k \in 1..Len(Moves) :
              Before(tracker_apply(old_ranking, SubSeq(Moves, 1, k)), Moves[k][1])
                  = Moves[k][2]
        /\ (new_ranking # <<>> /\ old_ranking[1] # new_ranking[1]) =>
              /\ Len(Moves) = Len(new_ranking) - 1
              /\ \A k \in 1..Len(Moves) : Moves[k][1] # new_ranking[1]

\* C23 witness: a live run on rankings of three issues that differ at the
\* first index, after which the tracker holds new_ranking
C23_Witness ==
    /\ SetRankRan
    /\ ~dry_run
    /\ Len(new_ranking) = 3
    /\ old_ranking[1] # new_ranking[1]
    /\ old_ranking[3] = new_ranking[1]
    /\ Len(calls) = 2
    /\ tracker = new_ranking

\* The position ratio i / n does not exceed the threshold of the x-th of the
\* four blocks: 1/16, 1/8, 1/4 and 1
WithinThreshold(i, n, x) ==
    CASE x = 1 -> 16 * i <= n
      [] x = 2 -> 8 * i <= n
      [] x = 3 -> 4 * i <= n
      [] OTHER -> i <= n

\* C24: in priority_from_rank an issue that no block claims makes
\* Blocks.add_issue raise RuntimeError (as happens without the last of the
\* four blocks as soon as there are two issues); with the four blocks every
\* issue of a non-empty input is in exactly one block, the first whose
\* threshold its position ratio does not exceed, so nothing is raised and
\* get_issues() is the input in its order.
C24_EveryIssueClaimedOnce ==
    PriorityRan =>
        LET iss == input.issues
            n == Len(iss)
        IN  /\ ~raised
            /\ pfr_raises(SubSeq(pfr_blocks, 1, 3), iss) <=> n >= 2
            /\ LET bs == pfr_Blocks(iss)
               IN  /\ \A i \in 0..(n - 1) : \A x \in 1..Len(bs) :
                         iss[i + 1] \in Range(bs[x].issues)
                             <=> /\ WithinThreshold(i, n, x)
                                 /\ \A y \in 1..(x - 1) : ~WithinThreshold(i, n, y)
                   /\ \A x \in 1..Len(bs) :
                         \A j, k \in 1..Len(bs[x].issues) :
                             bs[x].issues[j] = bs[x].issues[k] => j = k
                   /\ pfr_get_issues(bs) = iss

\* C24 witness: a run on the longest backlog, with issues in each of the four
\* blocks
C24_Witness ==
    /\ PriorityRan
    /\ ~raised
    /\ Len(input.issues) = MaxRanked
    /\ \A x \in 1..4 : pfr_Blocks(input.issues)[x].issues # <<>>
    /\ Len(pfr_Blocks(input.issues)[4].issues) > 4

\* The parent of the block is in the status category In Progress; a block
\* without a parent has none that is
Active(b) ==
    b.parent_issue # None /\ parents[b.parent_issue].status = InProgress

\* C25: in rules.team.rank with favor_status=True, after sort() every block
\* whose parent is In Progress precedes every block whose parent is not, the
\* parentless blocks among the latter, and the blocks of each of the two
\* groups are in the order that the project-rank step gave them.
C25_InProgressFirstAndStable ==
    (RankRan /\ favor_status) =>
        LET step == rank_sort_by_project_rank(rank_Blocks(issues, issue), parents)
        IN  /\ IsPermutation(blocks, step)
            /\ \A x, y \in 1..Len(blocks) :
                  /\ (Active(blocks[x]) /\ ~Active(blocks[y])) => x < y
                  /\ (x < y /\ Active(blocks[x]) = Active(blocks[y]))
                        => IndexOf(step, blocks[x]) < IndexOf(step, blocks[y])

\* C25 witness: a parentless block and a block whose parent is not in
\* progress, in this order, are passed by a block whose parent is
C25_Witness ==
    /\ RankRan
    /\ favor_status
    /\ Len(blocks) = 3
    /\ Active(blocks[1])
    /\ blocks[2].parent_issue = None
    /\ blocks[3].parent_issue # None /\ ~Active(blocks[3])
    /\ rank_sort_by_project_rank(rank_Blocks(issues, issue), parents)
          = <<blocks[2], blocks[3], blocks[1]>>

\* The place of a block in the order of timesensitive_rank: the
\* time-sensitive block, a block whose parent is In Progress, a block with
\* another parent, the block of the parentless issues
BlockGroup(b) ==
    IF b.ts THEN 0
    ELSE IF Active(b) THEN 1
    ELSE IF b.parent_issue # None THEN 2
    ELSE 3

\* C26: after Blocks.sort() in rules.team.timesensitive_rank the first block
\* is the time-sensitive block, empty or not, and no other block is; the
\* blocks whose parent is In Progress follow, then the other blocks that have
\* a parent, and last the one block that holds every parentless issue that
\* is not urgent. In the new ranking each such issue is therefore after
\* every issue that has a parent.
C26_BlockOrder ==
    TSRan =>
        /\ blocks # <<>>
        /\ \A x \in 1..Len(blocks) : blocks[x].ts <=> x = 1
        /\ \A x, y \in 1..Len(blocks) :
              x < y => BlockGroup(blocks[x]) <= BlockGroup(blocks[y])
        /\ Cardinality({x \in 1..Len(blocks) : BlockGroup(blocks[x]) = 3}) <= 1
        /\ \A i \in Range(issues) :
              (issue[i].parent = None /\ ~Urgent(i)) =>
                  /\ i \in Range(blocks[Len(blocks)].issues)
                  /\ BlockGroup(blocks[Len(blocks)]) = 3
                  /\ \A j \in Range(issues) :
                        issue[j].parent # None
                            => Pos(new_ranking, j) < Pos(new_ranking, i)

\* C26 witness: the list starts with a parentless issue and goes on with an
\* issue whose parent is not in progress and one whose parent is; none is
\* urgent, so the time-sensitive block is empty, and the sort reverses the
\* three blocks behind it
C26_Witness ==
    /\ TSRan
    /\ Len(issues) = 3
    /\ Len(blocks) = 4
    /\ blocks[1].ts /\ blocks[1].issues = <<>>
    /\ BlockGroup(blocks[2]) = 1 /\ blocks[2].issues = <<issues[3]>>
    /\ BlockGroup(blocks[3]) = 2 /\ blocks[3].issues = <<issues[2]>>
    /\ BlockGroup(blocks[4]) = 3 /\ blocks[4].issues = <<issues[1]>>
    /\ new_ranking = <<issues[3], issues[2], issues[1]>>

FixVersionRan == which = "fixversion" /\ runs > 0

\* A fixVersion of the issue is released before today + 90 days, so its
\* earliest release date is set and before that day
FixVersionSoon(i) ==
    \E d \in Range(issue[i].fixVersions) : d # NoDate /\ d < Today + FvHorizonDays

C28_AlwaysARanking ==
    FixVersionRan =>
        /\ ~fv_get_issues(blocks, issue).raised
        /\ ~raised
        /\ IsPermutation(new_ranking, issues)

\* The issue carries the Non-compliant label
Flagged(fields) == \E x \in 1..Len(fields.labels) : fields.labels[x] = "Non-compliant"

\* The comments posted on the issue so far
Posted == SelectSeq(writes, LAMBDA w : w[1] = "add_comment")

\* C29: a call of utils.jira.set_non_compliant_flag with dry_run=False leaves
\* the issue with the Non-compliant label iff context["non-compliant"] is
\* true; if the issue had the label and is still non-compliant the pending
\* comments are cleared, and add_comment then posts nothing; if the label is
\* removed the pending comments are "Issue is now compliant" alone, and
\* add_comment posts just that. A call with dry_run=True leaves the labels
\* and the comments as they were.
C29_FlagFollowsCompliance ==
    [][ /\ (step_set_non_compliant_flag /\ ~dry_run) =>
              /\ Flagged(output') <=> context.non_compliant
              /\ context'.non_compliant = context.non_compliant
              /\ (Flagged(output) /\ context.non_compliant)
                    => context'.comments = <<>>
              /\ (Flagged(output) /\ ~Flagged(output'))
                    => context'.comments = << <<"Issue is now compliant">> >>
        /\ (step_set_non_compliant_flag /\ dry_run) =>
              /\ output'.labels = output.labels
              /\ context'.comments = context.comments
        /\ (step_add_comment /\ ~dry_run) =>
              /\ context.comments = <<>> => Posted' = Posted
              /\ context.comments = << <<"Issue is now compliant">> >> =>
                    /\ Len(Posted') = Len(Posted) + 1
                    /\ Posted'[Len(Posted')][2][1] = <<"Issue is now compliant">>
                    /\ \A x \in 2..Len(Posted'[Len(Posted')][2]) :
                          Posted'[Len(Posted')][2][x] = <<input.footer>>
      ]_vars

\* C29 witness: the end of a live process_type on an issue that had the
\* label and still has no parent: check_parent_link left a comment, the
\* label is still there and no comment was posted
C29_Witness ==
    /\ which = "process_type"
    /\ runs = Len(process_type_steps)
    /\ ~dry_run
    /\ \E x \in 1..Len(input.checks) : input.checks[x] = "check_parent_link"
    /\ input.parent = <<>>
    /\ context.non_compliant
    /\ Flagged(output)
    /\ writes = <<>>
    /\ context.comments = <<>>

RetryRan == which = "retry"

\* The seconds since inner read the clock at its start
Elapsed == context.now - context.start

\* The most invocations that fit in the longest timeout
MaxInvocations == (retry_timeout \div 13) + 1

\* C30: the wrapper of utils.retry.retry invokes the function again after
\* each exception of type wait_on, until the function returns or the timeout
\* has passed.  The result of the first invocation that returns is returned,
\* no exception surfaces then and the function is not invoked again.  An
\* exception of type wait_on surfaces only after the sleep that follows the
\* invocation that raised it, it is the exception of the last invocation, and
\* at least `timeout` seconds have then elapsed since the start.  So a call
\* in which an invocation made before the timeout succeeds surfaces no
\* exception, however many were caught before.
C30_RetriedUntilReturnOrTimeout ==
    /\ [](RetryRan =>
            /\ context.pc = "returned" =>
                  /\ ~raised
                  /\ context.surfaced = ""
                  /\ output = <<runs>>
                  /\ context.caught = runs - 1
            /\ (raised /\ context.surfaced = "wait_on") =>
                  /\ context.pc = "raised"
                  /\ context.caught = runs
                  /\ context.slept = runs
                  /\ Elapsed >= input.timeout
            /\ raised => context.surfaced # "")
    /\ [][RetryRan =>
            /\ runs' # runs =>
                  /\ runs' = runs + 1
                  /\ context.pc = "call"
                  /\ context.caught = runs
                  /\ context.slept = runs
                  /\ runs > 0 => Elapsed < input.timeout
            /\ context.pc \in {"returned", "raised"} => runs' = runs
            /\ (context.pc = "except" /\ context'.pc = "call")
                  => Elapsed' < input.timeout]_vars
    /\ \A n \in 1..MaxInvocations :
          (RetryRan /\ context.pc = "except" /\ runs = n)
              ~> (runs = n + 1 \/ (raised /\ Elapsed >= input.timeout))

\* C30 witness: two invocations raised, the third returned before the
\* timeout of 40 seconds, and its result is returned
C30_Witness ==
    /\ RetryRan
    /\ input.timeout = 40
    /\ context.pc = "returned"
    /\ runs = 3
    /\ context.slept = 2
    /\ output = <<3>>
    /\ Elapsed < input.timeout
    /\ ~raised

====
